---- MODULE Spec2Model ----
(***************************************************************************)
(* Model of the proof-verification core of elusiv:                         *)
(*   - RingQueue                  (src/src/state/queue.rs)                 *)
(*   - the nullifier set          (NullifierAccount, consumed by proof.rs) *)
(*   - the VerificationAccount state machine and its instruction handlers  *)
(*                                (src/elusiv/src/processor/proof.rs)      *)
(* Three specifications share the variables:                              *)
(*   SpecQueue      enqueue / dequeue_first / view / len on one RingQueue  *)
(*   SpecNullifier  try_insert / can_insert on the nullifier sets          *)
(*   Spec           the instruction handlers, run inside transactions      *)
(***************************************************************************)
EXTENDS Integers, Sequences, FiniteSets, TLC

VARIABLES
    queue,       \* the commitment queue account: [head, tail, data]
    fifo,        \* history: the elements enqueued and not yet dequeued, in order
    nullifiers,  \* nullifiers[t]: nullifier hashes recorded for Merkle tree t
    inserted,    \* history: the <<tree, hash>> pairs whose try_insert succeeded
    acct,        \* acct[a]: the VerificationAccount a
    nda,         \* the NullifierDuplicateAccount PDAs that exist (by key)
    tx,          \* the transaction being executed: [ixs, pc, fixed]
    snap,        \* the program state at the start of the transaction
    last,        \* the last call: [op, acc, res, val]
    balance,     \* balance[w][t]: what wallet w has received, less what it has paid,
                 \* of asset t since the initial state
    array        \* array[k]: the bytes of sub-account k of a BigArrayAccount

vars == <<queue, fifo, nullifiers, inserted, acct, nda, tx, snap, last, balance, array>>

----------------------------------------------------------------------------
(* Results *)

OK == "Ok"
NoCall == [op |-> "none", acc |-> 0, res |-> OK, val |-> 0]
Call(op, a, res, val) == [op |-> op, acc |-> a, res |-> res, val |-> val]

----------------------------------------------------------------------------
(* RingQueue: src/src/state/queue.rs *)

\* RingQueue::SIZE, the ring modulus (7 in the tests of queue.rs)
SIZE == 4
\* the enqueued values are 1..NumValues; 0 is a slot never written
NumValues == 2
Values == 1..NumValues

EmptyQueueOf(h, zero) == [head |-> h, tail |-> h, data |-> [i \in 0..(SIZE - 1) |-> zero]]
EmptyQueue(h) == EmptyQueueOf(h, 0)

\* enqueue: [res, q]
enqueue_overwrite_mutant(q, value) ==
    LET next_tail == (q.tail + 1) % SIZE
    IN  [res |-> OK, q |-> [q EXCEPT !.data[q.tail] = value, !.tail = next_tail]]

enqueue(q, value) ==
    LET next_tail == (q.tail + 1) % SIZE
    IN  IF next_tail # q.head
        THEN [res |-> OK, q |-> [q EXCEPT !.data[q.tail] = value, !.tail = next_tail]]
        ELSE [res |-> "QueueIsFull", q |-> q]

\* view(offset): [res, val]
view(q, offset) ==
    IF q.head # q.tail
    THEN [res |-> OK, val |-> q.data[(q.head + offset) % SIZE]]
    ELSE [res |-> "QueueIsEmpty", val |-> 0]

view_first(q) == view(q, 0)

\* dequeue_first: [res, val, q]
dequeue_first_lifo_mutant(q) ==
    IF q.head # q.tail
    THEN [res |-> OK, val |-> q.data[(q.tail + SIZE - 1) % SIZE],
          q |-> [q EXCEPT !.head = (q.head + 1) % SIZE]]
    ELSE [res |-> "QueueIsEmpty", val |-> 0, q |-> q]

dequeue_first_clear_slot_mutant(q) ==
    IF q.head # q.tail
    THEN [res |-> OK, val |-> q.data[q.head],
          q |-> [q EXCEPT !.data[q.head] = 0, !.head = (q.head + 1) % SIZE]]
    ELSE [res |-> "QueueIsEmpty", val |-> 0, q |-> q]

dequeue_first(q) ==
    IF q.head # q.tail
    THEN [res |-> OK, val |-> q.data[q.head],
          q |-> [q EXCEPT !.head = (q.head + 1) % SIZE]]
    ELSE [res |-> "QueueIsEmpty", val |-> 0, q |-> q]

RECURSIVE contains_from(_, _, _)
contains_from(q, ptr, value) ==
    IF ptr = q.tail THEN FALSE
    ELSE IF q.data[ptr] = value THEN TRUE
    ELSE contains_from(q, (ptr + 1) % SIZE, value)

contains_any_slot_mutant(q, value) ==
    \E i \in 0..(SIZE - 1) : q.data[i] = value

contains(q, value) ==
    contains_from(q, q.head, value)

len(q) ==
    IF q.tail < q.head
    THEN q.head + q.tail
    ELSE q.tail - q.head

\* The elements stored in the ring, read from head to tail
RECURSIVE ring_from(_, _)
ring_from(q, ptr) ==
    IF ptr = q.tail THEN <<>>
    ELSE <<q.data[ptr]>> \o ring_from(q, (ptr + 1) % SIZE)

RingContent(q) == ring_from(q, q.head)

----------------------------------------------------------------------------
(* BigArrayAccount: src/src/state/program_account.rs *)

\* the largest size of an account in bytes (10 MiB, scaled down)
MAX_PERMITTED_DATA_LENGTH == 5
\* T::SIZE, the bytes of an element (32 in the tests)
ElementSize == 2
Bytes == 0..1

MAX_VALUES_PER_ACCOUNT == MAX_PERMITTED_DATA_LENGTH \div ElementSize

max_account_size(element_size) ==
    (MAX_PERMITTED_DATA_LENGTH \div element_size) * element_size

big_array_accounts_count(length, element_size) ==
    LET max_values == MAX_PERMITTED_DATA_LENGTH \div element_size
    IN  (length \div max_values) + (IF length % max_values = 0 THEN 0 ELSE 1)

\* the account of the tests: full sub-accounts and one more element
VALUES_COUNT == MAX_VALUES_PER_ACCOUNT * 2 + 1
COUNT == big_array_accounts_count(VALUES_COUNT, ElementSize)
INTERMEDIARY_ACCOUNT_SIZE == max_account_size(ElementSize)
LAST_ACCOUNT_SIZE ==
    (VALUES_COUNT - (COUNT - 1) * MAX_VALUES_PER_ACCOUNT) * ElementSize

\* the size in bytes of sub-account k
SubAccountSize(k) ==
    IF k = COUNT - 1 THEN LAST_ACCOUNT_SIZE ELSE INTERMEDIARY_ACCOUNT_SIZE

\* every sub-account filled with zeros
NoArray == [k \in 0..(COUNT - 1) |-> [b \in 0..(SubAccountSize(k) - 1) |-> 0]]

account_and_local_index_first_slot_mutant(index) ==
    <<index \div MAX_VALUES_PER_ACCOUNT, 0>>

account_and_local_index(index) ==
    LET account_index == index \div MAX_VALUES_PER_ACCOUNT
    IN  <<account_index, index % MAX_VALUES_PER_ACCOUNT>>

\* data_slice!: the bytes of the element in its sub-account; get_account panics
\* on a sub-account that does not exist and the slice on bytes beyond the data
data_slice(accounts, index) ==
    LET account_index == account_and_local_index(index)[1]
        local_index == account_and_local_index(index)[2]
    IN  [ok |-> /\ account_index < COUNT
                /\ (local_index + 1) * ElementSize <= SubAccountSize(account_index),
         account |-> account_index,
         first |-> local_index * ElementSize]

\* get(index): [res, val], val the ElementSize bytes of the element
big_array_get(accounts, index) ==
    LET slice == data_slice(accounts, index)
    IN  IF ~slice.ok THEN [res |-> "Panic", val |-> <<>>]
        ELSE [res |-> OK,
              val |-> [b \in 1..ElementSize |->
                          accounts[slice.account][slice.first + b - 1]]]

\* set(index, value): [res, accounts]
big_array_set(accounts, index, value) ==
    LET slice == data_slice(accounts, index)
    IN  IF ~slice.ok THEN [res |-> "Panic", accounts |-> accounts]
        ELSE [res |-> OK,
              accounts |->
                  [accounts EXCEPT ![slice.account] =
                      [b \in DOMAIN accounts[slice.account] |->
                          IF b \in slice.first..(slice.first + ElementSize - 1)
                          THEN value[b - slice.first + 1]
                          ELSE accounts[slice.account][b]]]]

----------------------------------------------------------------------------
(* Nullifier set: NullifierAccount, one per Merkle tree *)

\* the Merkle trees 0..NumTrees-1 and the nullifier hashes 1..NumHashes (reduced form)
NumTrees == 2
NumHashes == 2
Trees == 0..(NumTrees - 1)
Hashes == 1..NumHashes

can_insert_nullifier_hash(set, h) == h \notin set

\* try_insert_nullifier_hash: [res, set]
try_insert_nullifier_hash_forgetful_mutant(set, h) ==
    IF can_insert_nullifier_hash(set, h)
    THEN [res |-> OK, set |-> set]
    ELSE [res |-> "CouldNotInsertNullifier", set |-> set]

try_insert_nullifier_hash(set, h) ==
    IF can_insert_nullifier_hash(set, h)
    THEN [res |-> OK, set |-> set \cup {h}]
    ELSE [res |-> "CouldNotInsertNullifier", set |-> set]

----------------------------------------------------------------------------
(* Statements and verification accounts: src/elusiv/src/processor/proof.rs *)

MAX_MT_COUNT == 2
RESERVED_VACCS_PER_FEE_PAYER == 128
TIMESTAMP_BITS_PRUNING == 5

\* the verification accounts (each id is one account lifetime, from
\* init_verification to the terminal transfer)
NumVAccs == 2
VAccs == 1..NumVAccs

\* longest transaction (number of instructions)
MaxTxLen == 4

\* ElusivOption<bool>
ONone == "None"
Some(b) == IF b THEN "Some(true)" ELSE "Some(false)"

\* InputCommitment: root = NoRoot is Option::None
NoRoot == "NoRoot"
ValidRoot == "ValidRoot"
InvalidRoot == "InvalidRoot"
In(root, nh) == [root |-> root, nullifier_hash |-> nh]

ZERO_COMMITMENT == "ZeroCommitment"
Commitment == "Commitment"

\* the key the creator signs with, and another signer
Creator == "creator"
Stranger == "stranger"
Payers == {Creator, Stranger}

\* generate_hashed_inputs: modelled as the tuple of its arguments (collision free)
generate_hashed_inputs(recipient, identifier, iv, encrypted_owner, reference, is_ata, memo) ==
    <<recipient, identifier, iv, encrypted_owner, reference, is_ata, memo>>

NoReference == "zero"
NoMemo == "NoMemo"
Recipient == "recipient"
Identifier == "identifier"
Iv == "iv"
EncryptedOwner == "encrypted_owner"

\* ProofRequest::Send(SendPublicInputs)
SendRequest(ics, token_id, output) ==
    [kind |-> "Send",
     input_commitments |-> ics,
     output_commitment |-> output,
     token_id |-> token_id,
     fee_version |-> 0,
     fee |-> 1,
     amount |-> 1,
     current_time |-> 32,
     total_amount |-> 2,
     recipient_is_associated_token_account |-> FALSE,
     solana_pay_transfer |-> FALSE,
     additional_constraints |-> TRUE,
     hashed_inputs |-> generate_hashed_inputs(Recipient, Identifier, Iv, EncryptedOwner,
                                              NoReference, FALSE, NoMemo)]

\* ProofRequest::Migrate(MigratePublicInputs)
MigrateRequest(ics) ==
    [SendRequest(ics, 0, Commitment) EXCEPT !.kind = "Migrate"]

NoRequest == [SendRequest(<<>>, 0, Commitment) EXCEPT !.kind = "NoRequest"]

\* ProofRequest::vkey_id
SendQuadraVKey == "SendQuadraVKey"
MigrateUnaryVKey == "MigrateUnaryVKey"
request_vkey_id(request) ==
    IF request.kind = "Send" THEN SendQuadraVKey ELSE MigrateUnaryVKey

\* The statements submitted to init_verification, with the tree indices they
\* are submitted with: accepted ones ...
ValidSubmissions ==
    { \* one input, native asset, tree 0
      [request |-> SendRequest(<<In(ValidRoot, 1)>>, 0, Commitment), tree_indices |-> <<0, 1>>],
      \* the same statement spent from tree 1
      [request |-> SendRequest(<<In(ValidRoot, 1)>>, 0, Commitment), tree_indices |-> <<1, 0>>],
      \* two inputs of one tree
      [request |-> SendRequest(<<In(ValidRoot, 1), In(NoRoot, 2)>>, 0, Commitment), tree_indices |-> <<0, 1>>],
      \* two inputs of two trees, the same hash in both
      [request |-> SendRequest(<<In(ValidRoot, 1), In(ValidRoot, 1)>>, 0, Commitment), tree_indices |-> <<0, 1>>],
      \* one input, token asset
      [request |-> SendRequest(<<In(ValidRoot, 1)>>, 1, Commitment), tree_indices |-> <<0, 1>>] }

\* ... and rejected ones
InvalidSubmissions ==
    { [request |-> SendRequest(<<In(ValidRoot, 1)>>, 0, ZERO_COMMITMENT), tree_indices |-> <<0, 1>>],
      [request |-> SendRequest(<<In(NoRoot, 1)>>, 0, Commitment), tree_indices |-> <<0, 1>>],
      [request |-> SendRequest(<<In(InvalidRoot, 1)>>, 0, Commitment), tree_indices |-> <<0, 1>>],
      [request |-> SendRequest(<<In(ValidRoot, 1), In(NoRoot, 1)>>, 0, Commitment), tree_indices |-> <<0, 1>>],
      [request |-> SendRequest(<<In(ValidRoot, 1), In(ValidRoot, 2)>>, 0, Commitment), tree_indices |-> <<0, 0>>],
      [request |-> [SendRequest(<<In(ValidRoot, 1)>>, 0, Commitment)
                        EXCEPT !.additional_constraints = FALSE],
       tree_indices |-> <<0, 1>>],
      [request |-> MigrateRequest(<<In(ValidRoot, 1)>>), tree_indices |-> <<0, 1>>] }

Submissions == ValidSubmissions \cup InvalidSubmissions

\* the proof points a, b, c of a verification account: not yet written, and two proofs
NoProof == "NoProof"
SomeProof == "proof"
OtherProof == "other proof"

\* VerificationAccountData, the fee breakdown of other_data, before it is written
NoData ==
    [min_batching_rate |-> 0, subvention |-> 0, network_fee |-> 0,
     commitment_hash_fee |-> 0, commitment_hash_fee_token |-> 0,
     proof_verification_fee |-> 0, associated_token_account_rent |-> 0]

\* an account that does not exist: no lamports, no data
AbsentAccount ==
    [state |-> "Absent",
     is_verified |-> ONone,
     vkey_id |-> SendQuadraVKey,
     request |-> NoRequest,
     tree_indices |-> <<0, 0>>,
     fee_payer |-> Creator,
     skip_nullifier_pda |-> FALSE,
     recipient_wallet |-> ONone,
     data |-> NoData,
     proof |-> NoProof,
     lamports |-> 0]

\* VerificationState, in its order
Rank(state) ==
    CASE state = "Absent" -> 0
      [] state = "None" -> 1
      [] state = "FeeTransferred" -> 2
      [] state = "ProofSetup" -> 3
      [] state = "InsertNullifiers" -> 4
      [] state = "Finalized" -> 5
      [] state = "Closed" -> 6

\* The program state the handlers read and write; transfers: the payments the
\* instruction has made, in their order (none when it starts)
Program ==
    [acct |-> acct, nullifiers |-> nullifiers, nda |-> nda, queue |-> queue,
     transfers |-> <<>>, balance |-> balance]

\* the accounts of the program that hold funds
Pool == "pool"
FeeCollector == "fee_collector"
VerificationAccountInfo == "verification_account"
NullifierDuplicateAccountInfo == "nullifier_duplicate_account"

\* Token: an amount of an asset; token_id 0 is the native asset (Lamports)
TokenIds == 0..1
Token(token_id, amount) == [token_id |-> token_id, amount |-> amount]
Lamports(amount) == Token(0, amount)

\* a payment of the Token what
Pay(from, to, what) == [from |-> from, to |-> to, what |-> what]

\* the rent a PDA account is opened with (open_pda_account_with_associated_pubkey)
\* and the rent of a token account (spl_token_account_rent), in lamports
PdaRent == 1
spl_token_account_rent == 2

\* the wallets whose balances are followed: a token account goes by its owner
Wallets == {Pool, FeeCollector, Creator, Stranger, Recipient}

\* the balances after a payment, and after the payments of an instruction
move(b, t) ==
    [w \in Wallets |->
        [k \in TokenIds |->
            b[w][k]
            + (IF w = t.to /\ k = t.what.token_id THEN t.what.amount ELSE 0)
            - (IF w = t.from /\ k = t.what.token_id THEN t.what.amount ELSE 0)]]

NoBalance == [w \in Wallets |-> [k \in TokenIds |-> 0]]

RECURSIVE settle(_, _)
settle(b, ts) == IF ts = <<>> THEN b ELSE settle(move(b, Head(ts)), Tail(ts))

\* StorageAccount: the active tree and the number of commitments in it
storage == [trees_count |-> 0, next_commitment_ptr |-> 0]

----------------------------------------------------------------------------
(* The instructions sysvar: the instruction list of the current transaction. *)
(* An entry is the instruction's kind: one of the four finalize             *)
(* instructions of this program, another instruction of this program, or    *)
(* an instruction of a foreign program.                                     *)

FINALIZE_VERIFICATION_SEND_INDEX == "FinalizeVerificationSend"
FINALIZE_VERIFICATION_SEND_NULLIFIER_INDEX == "FinalizeVerificationSendNullifier"
FINALIZE_VERIFICATION_TRANSFER_LAMPORTS_INDEX == "FinalizeVerificationTransferLamports"
FINALIZE_VERIFICATION_TRANSFER_TOKEN_INDEX == "FinalizeVerificationTransferToken"
OtherElusivIx == "OtherElusivInstruction"
ForeignIx == "ForeignInstruction"

ElusivIxs == {FINALIZE_VERIFICATION_SEND_INDEX, FINALIZE_VERIFICATION_SEND_NULLIFIER_INDEX,
              FINALIZE_VERIFICATION_TRANSFER_LAMPORTS_INDEX,
              FINALIZE_VERIFICATION_TRANSFER_TOKEN_INDEX, OtherElusivIx}
IxKinds == ElusivIxs \cup {ForeignIx}

\* An instruction of the sysvar in full: Instruction { program_id, accounts, data }
\* with AccountMeta { pubkey, is_signer, is_writable }.  The instruction lists hold
\* the instructions of the program and ForeignIx by kind, other instructions in full.
Meta(key, is_signer, is_writable) ==
    [pubkey |-> key, is_signer |-> is_signer, is_writable |-> is_writable]

Instruction(program_id, accounts, data) ==
    [program_id |-> program_id, accounts |-> accounts, data |-> data]

SystemProgram == "system program"
NoInstruction == "NoInstruction"

\* system_instruction::transfer(from, to, lamports)
system_transfer(from, to, lamports) ==
    Instruction(SystemProgram, <<Meta(from, TRUE, TRUE), Meta(to, FALSE, TRUE)>>,
                [transfer |-> lamports])

\* the instructions other than those of the program that a transaction may hold:
\* transfers of the system program and of another program, of either amount,
\* between any wallets, with any signer and writable flags, with an account
\* missing or one more
PayMetas(keys) ==
    {Meta(key, is_signer, is_writable) :
        key \in keys, is_signer \in BOOLEAN, is_writable \in BOOLEAN}

PayInstructions ==
    {Instruction(program_id, accounts, [transfer |-> lamports]) :
        program_id \in {SystemProgram, "other program"},
        lamports \in 1..2,
        accounts \in
            {<<from, Meta("recipient", FALSE, TRUE)>> :
                from \in PayMetas({"creator", "stranger"})}
            \cup {<<Meta("creator", TRUE, TRUE), to>> :
                     to \in PayMetas({"recipient", "stranger"})}
            \cup {<<Meta("creator", TRUE, TRUE)>>,
                  <<Meta("creator", TRUE, TRUE), Meta("recipient", FALSE, TRUE),
                    Meta("stranger", FALSE, FALSE)>>}}

\* the instructions sysvar holds each instruction serialized
serialize(instruction) ==
    ToString(instruction)

\* instruction_at_index(index), indices from 0: the instruction deserialized
instruction_at_index(ixs, index) ==
    IF index < 0 \/ index >= Len(ixs)
    THEN [res |-> "InvalidArgument", instruction |-> NoInstruction]
    ELSE LET ix == ixs[index + 1]
         IN  [res |-> OK,
              instruction |->
                  IF ix \in ElusivIxs THEN Instruction("elusiv", <<>>, [elusiv |-> ix])
                  ELSE IF ix = ForeignIx THEN Instruction("foreign", <<>>, [foreign |-> ix])
                  ELSE CHOOSE instruction \in PayInstructions : serialize(instruction) = ix]

\* the guards of one expected account against the account at the same position;
\* indexing beyond the accounts of the instruction panics
RECURSIVE enforce_accounts(_, _, _)
enforce_accounts(instruction, expected, i) ==
    IF i > Len(expected.accounts) THEN OK
    ELSE IF i > Len(instruction.accounts) THEN "Panic"
    ELSE IF instruction.accounts[i].pubkey # expected.accounts[i].pubkey
         THEN "InvalidOtherInstruction"
    ELSE IF expected.accounts[i].is_signer /\ ~instruction.accounts[i].is_signer
         THEN "InvalidOtherInstruction"
    ELSE IF expected.accounts[i].is_writable /\ ~instruction.accounts[i].is_writable
         THEN "InvalidOtherInstruction"
    ELSE enforce_accounts(instruction, expected, i + 1)

enforce_instruction_any_data_mutant(ixs, index, expected, ignore_data) ==
    LET at == instruction_at_index(ixs, index)
    IN  IF at.res # OK THEN at.res
        ELSE IF at.instruction.program_id # expected.program_id
             THEN "InvalidOtherInstruction"
        ELSE enforce_accounts(at.instruction, expected, 1)

enforce_instruction(ixs, index, expected, ignore_data) ==
    LET at == instruction_at_index(ixs, index)
    IN  IF at.res # OK THEN at.res
        ELSE IF at.instruction.program_id # expected.program_id
             THEN "InvalidOtherInstruction"
        ELSE IF ~ignore_data /\ at.instruction.data # expected.data
             THEN "InvalidOtherInstruction"
        ELSE enforce_accounts(at.instruction, expected, 1)

\* get_elusiv_ix_index (indices count from 0, as in the code)
get_elusiv_ix_index(ix_index, ixs) ==
    IF ix_index < 0 \/ ix_index >= Len(ixs) THEN [res |-> "InvalidArgument", ix |-> ""]
    ELSE IF ixs[ix_index + 1] \notin ElusivIxs THEN [res |-> "InvalidAccount", ix |-> ""]
    ELSE [res |-> OK, ix |-> ixs[ix_index + 1]]

\* guard!(instruction == get_elusiv_ix_index(at)?, InvalidOtherInstruction)
sibling_guard(instruction, at, ixs) ==
    LET got == get_elusiv_ix_index(at, ixs)
    IN  IF got.res # OK THEN got.res
        ELSE IF got.ix # instruction THEN "InvalidOtherInstruction"
        ELSE OK

\* the result of the first failing guard of a list of <<instruction, position>> pairs
RECURSIVE first_error(_, _)
first_error(pairs, ixs) ==
    IF pairs = <<>> THEN OK
    ELSE LET r == sibling_guard(pairs[1][1], pairs[1][2], ixs)
         IN  IF r # OK THEN r ELSE first_error(Tail(pairs), ixs)

\* the mutant: only the instructions up to the current one are compared
enforce_instruction_siblings_no_trailing_mutant(ixs, ix_index, current_sibling_index, instructions) ==
    IF ~(current_sibling_index < Len(instructions)) THEN "InvalidOtherInstruction"
    ELSE LET own == sibling_guard(instructions[current_sibling_index + 1], ix_index, ixs)
             zero_ix_index == ix_index - current_sibling_index
         IN  IF own # OK THEN own
             ELSE IF zero_ix_index < 0 THEN "MATH_ERR"
             ELSE first_error(
                    [i \in 1..current_sibling_index |->
                        <<instructions[i], zero_ix_index + i - 1>>],
                    ixs)

enforce_instruction_siblings(ixs, ix_index, current_sibling_index, instructions) ==
    IF ~(current_sibling_index < Len(instructions)) THEN "InvalidOtherInstruction"
    ELSE LET own == sibling_guard(instructions[current_sibling_index + 1], ix_index, ixs)
             zero_ix_index == ix_index - current_sibling_index
         IN  IF own # OK THEN own
             ELSE IF zero_ix_index < 0 THEN "MATH_ERR"
             ELSE first_error(
                    [i \in 1..current_sibling_index |->
                        <<instructions[i], zero_ix_index + i - 1>>]
                    \o [i \in 1..(Len(instructions) - current_sibling_index) |->
                        <<instructions[current_sibling_index + i], ix_index + i - 1>>],
                    ixs)

\* the mutant: the check of the test build (cfg!(test)), which accepts everything
enforce_finalize_send_instructions_unchecked(ixs, ix_index, finalize_instruction_index, number_of_input_commitments, uses_lamports) ==
    OK

enforce_finalize_send_instructions(ixs, ix_index, finalize_instruction_index, number_of_input_commitments, uses_lamports) ==
    LET instructions ==
            <<FINALIZE_VERIFICATION_SEND_INDEX>>
            \o [i \in 1..number_of_input_commitments |->
                    FINALIZE_VERIFICATION_SEND_NULLIFIER_INDEX]
            \o <<IF uses_lamports THEN FINALIZE_VERIFICATION_TRANSFER_LAMPORTS_INDEX
                 ELSE FINALIZE_VERIFICATION_TRANSFER_TOKEN_INDEX>>
    IN  enforce_instruction_siblings(ixs, ix_index, finalize_instruction_index, instructions)

----------------------------------------------------------------------------
(* Helpers of the handlers *)

\* capacity of a Merkle tree (scaled down)
MT_COMMITMENT_COUNT == 2

minimum_commitment_mt_index_no_rollover_mutant(mt_index, commitment_count, commitment_queue_len) ==
    <<(commitment_count + commitment_queue_len) % MT_COMMITMENT_COUNT, mt_index>>

minimum_commitment_mt_index(mt_index, commitment_count, commitment_queue_len) ==
    LET count == MT_COMMITMENT_COUNT
        index == (commitment_count + commitment_queue_len) % count
        mt_offset == (commitment_count + commitment_queue_len) \div count
    IN  <<index, mt_index + mt_offset>>

is_timestamp_valid_unpruned_mutant(asserted_time, timestamp) ==
    asserted_time <= timestamp

is_timestamp_valid(asserted_time, timestamp) ==
    (asserted_time \div (2 ^ TIMESTAMP_BITS_PRUNING)) <= (timestamp \div (2 ^ TIMESTAMP_BITS_PRUNING))

is_vec_duplicate_free(v) == Cardinality({v[i] : i \in 1..Len(v)}) = Len(v)

\* StorageAccount::is_root_valid and NullifierAccount::get_root
is_root_valid(root) == root = ValidRoot

\* the index (from 0) among the statement's roots that input i (from 1) is assigned
\* in check_join_split_public_inputs: the number of roots before it, 0 without a root
local_tree_index(ics, i) ==
    IF ics[i].root = NoRoot THEN 0
    ELSE Cardinality({j \in 1..(i - 1) : ics[j].root # NoRoot})

roots_count(ics) == Cardinality({j \in 1..Len(ics) : ics[j].root # NoRoot})

\* the Merkle tree input i spends from
tree_of_input(ics, tree_indices, i) == tree_indices[local_tree_index(ics, i) + 1]

\* the guards of the second loop, for input i
join_split_input_guard(ics, tree_indices, nulls, i) ==
    IF \E j \in 1..Len(ics) :
           /\ j # i
           /\ ics[j].nullifier_hash = ics[i].nullifier_hash
           /\ local_tree_index(ics, i) = local_tree_index(ics, j)
    THEN "InvalidPublicInputs"
    ELSE IF ~can_insert_nullifier_hash(nulls[tree_of_input(ics, tree_indices, i)],
                                       ics[i].nullifier_hash)
    THEN "CouldNotInsertNullifier"
    ELSE OK

RECURSIVE first_input_error(_, _, _, _)
first_input_error(ics, tree_indices, nulls, i) ==
    IF i > Len(ics) THEN OK
    ELSE LET r == join_split_input_guard(ics, tree_indices, nulls, i)
         IN  IF r # OK THEN r ELSE first_input_error(ics, tree_indices, nulls, i + 1)

JOIN_SPLIT_MAX_N_ARITY == 4

check_join_split_public_inputs_any_arity_mutant(public_inputs, nulls, tree_indices) ==
    LET ics == public_inputs.input_commitments
    IN  IF public_inputs.output_commitment = ZERO_COMMITMENT THEN "InvalidPublicInputs"
        ELSE IF ics[1].root = NoRoot THEN "InvalidPublicInputs"
        ELSE IF \E i \in 1..Len(ics) :
                    /\ ics[i].root # NoRoot
                    /\ local_tree_index(ics, i) < MAX_MT_COUNT
                    /\ ~is_root_valid(ics[i].root)
             THEN "InvalidMerkleRoot"
        ELSE IF roots_count(ics) > MAX_MT_COUNT THEN "InvalidPublicInputs"
        ELSE IF roots_count(ics) > 1 /\ ~is_vec_duplicate_free(tree_indices)
             THEN "InvalidInstructionData"
        ELSE first_input_error(ics, tree_indices, nulls, 1)

check_join_split_public_inputs(public_inputs, nulls, tree_indices) ==
    LET ics == public_inputs.input_commitments
    IN  IF public_inputs.output_commitment = ZERO_COMMITMENT THEN "InvalidPublicInputs"
        ELSE IF ics[1].root = NoRoot THEN "InvalidPublicInputs"
        ELSE IF Len(ics) > JOIN_SPLIT_MAX_N_ARITY THEN "InvalidPublicInputs"
        ELSE IF \E i \in 1..Len(ics) :
                    /\ ics[i].root # NoRoot
                    /\ local_tree_index(ics, i) < MAX_MT_COUNT
                    /\ ~is_root_valid(ics[i].root)
             THEN "InvalidMerkleRoot"
        ELSE IF roots_count(ics) > MAX_MT_COUNT THEN "InvalidPublicInputs"
        ELSE IF roots_count(ics) > 1 /\ ~is_vec_duplicate_free(tree_indices)
             THEN "InvalidInstructionData"
        ELSE first_input_error(ics, tree_indices, nulls, 1)

\* JoinSplitPublicInputs::associated_nullifier_duplicate_pda_pubkey: the key of the
\* NullifierDuplicateAccount, a hash of the statement's nullifier set
associated_nullifier_duplicate_pda_pubkey(public_inputs) ==
    {public_inputs.input_commitments[i].nullifier_hash :
        i \in 1..Len(public_inputs.input_commitments)}

\* the keys of the NullifierDuplicateAccount PDAs
NdaKeys == SUBSET Hashes \ {{}}

\* open_pda_account_with_associated_pubkey::<NullifierDuplicateAccount>: creates the
\* account passed, which has to be the PDA of the key and must not exist yet
open_nullifier_duplicate_account(existing, account, key) ==
    IF account # key THEN [res |-> "InvalidAccount", nda |-> existing]
    ELSE IF key \in existing THEN [res |-> "AccountAlreadyInUse", nda |-> existing]
    ELSE [res |-> OK, nda |-> existing \cup {key}]

----------------------------------------------------------------------------
(* The instruction handlers.  A handler takes the program state p and its   *)
(* arguments and returns [res, p]: its result and the program state it      *)
(* leaves; when res is an error the transaction, and with it p, is          *)
(* discarded.                                                               *)

Res(res, p) == [res |-> res, p |-> p]

\* VerificationAccount::setup
setup(fee_payer, skip_nullifier_pda, vkey_id, request, tree_indices) ==
    [state |-> "None",
     is_verified |-> ONone,
     vkey_id |-> vkey_id,
     request |-> request,
     tree_indices |-> tree_indices,
     fee_payer |-> fee_payer,
     skip_nullifier_pda |-> skip_nullifier_pda,
     recipient_wallet |-> ONone,
     data |-> NoData,
     proof |-> NoProof,
     lamports |-> PdaRent]

\* args: [fee_payer, vkey_is_frozen, vkey_id, verification_account_index, timestamp,
\*        nullifier_duplicate_account, request, tree_indices, skip_nullifier_pda]
init_verification_any_index_mutant(p, a, args) ==
    LET request == args.request
        key == associated_nullifier_duplicate_pda_pubkey(request)
        opened == open_nullifier_duplicate_account(p.nda, args.nullifier_duplicate_account,
                                                   key)
    IN  IF ~args.vkey_is_frozen THEN Res("InvalidAccount", p)
        ELSE IF args.vkey_id # request_vkey_id(request) THEN Res("InvalidAccount", p)
        ELSE IF request.kind = "Send" /\ ~request.additional_constraints
             THEN Res("InvalidPublicInputs", p)
        ELSE IF request.kind = "Send" /\ ~is_timestamp_valid(request.current_time, args.timestamp)
             THEN Res("InvalidInstructionData", p)
        ELSE IF request.kind # "Send" THEN Res("FeatureNotAvailable", p)
        ELSE LET checked == check_join_split_public_inputs(request, p.nullifiers,
                                                           args.tree_indices)
             IN  IF checked # OK THEN Res(checked, p)
                 ELSE IF args.skip_nullifier_pda /\ args.nullifier_duplicate_account # key
                      THEN Res("InvalidAccount", p)
                 ELSE IF args.skip_nullifier_pda /\ key \notin p.nda
                      THEN Res("InvalidInstructionData", p)
                 ELSE IF ~args.skip_nullifier_pda /\ opened.res # OK
                      THEN Res(opened.res, p)
                 ELSE IF p.acct[a].state # "Absent" THEN Res("AccountAlreadyInUse", p)
                 ELSE Res(OK,
                          [p EXCEPT !.nda = IF args.skip_nullifier_pda THEN p.nda
                                            ELSE opened.nda,
                                    !.acct[a] = setup(args.fee_payer,
                                                      args.skip_nullifier_pda,
                                                      args.vkey_id, request,
                                                      args.tree_indices),
                                    !.transfers =
                                        (IF args.skip_nullifier_pda THEN <<>>
                                         ELSE <<Pay(args.fee_payer,
                                                    NullifierDuplicateAccountInfo,
                                                    Lamports(PdaRent))>>)
                                        \o <<Pay(args.fee_payer, VerificationAccountInfo,
                                                 Lamports(PdaRent))>>])

init_verification(p, a, args) ==
    LET request == args.request
        key == associated_nullifier_duplicate_pda_pubkey(request)
        opened == open_nullifier_duplicate_account(p.nda, args.nullifier_duplicate_account,
                                                   key)
    IN  IF ~args.vkey_is_frozen THEN Res("InvalidAccount", p)
        ELSE IF args.vkey_id # request_vkey_id(request) THEN Res("InvalidAccount", p)
        ELSE IF ~(args.verification_account_index < RESERVED_VACCS_PER_FEE_PAYER)
             THEN Res("InvalidAccount", p)
        ELSE IF request.kind = "Send" /\ ~request.additional_constraints
             THEN Res("InvalidPublicInputs", p)
        ELSE IF request.kind = "Send" /\ ~is_timestamp_valid(request.current_time, args.timestamp)
             THEN Res("InvalidInstructionData", p)
        ELSE IF request.kind # "Send" THEN Res("FeatureNotAvailable", p)
        ELSE LET checked == check_join_split_public_inputs(request, p.nullifiers,
                                                           args.tree_indices)
             IN  IF checked # OK THEN Res(checked, p)
                 ELSE IF args.skip_nullifier_pda /\ args.nullifier_duplicate_account # key
                      THEN Res("InvalidAccount", p)
                 ELSE IF args.skip_nullifier_pda /\ key \notin p.nda
                      THEN Res("InvalidInstructionData", p)
                 ELSE IF ~args.skip_nullifier_pda /\ opened.res # OK
                      THEN Res(opened.res, p)
                 ELSE IF p.acct[a].state # "Absent" THEN Res("AccountAlreadyInUse", p)
                 ELSE Res(OK,
                          [p EXCEPT !.nda = IF args.skip_nullifier_pda THEN p.nda
                                            ELSE opened.nda,
                                    !.acct[a] = setup(args.fee_payer,
                                                      args.skip_nullifier_pda,
                                                      args.vkey_id, request,
                                                      args.tree_indices),
                                    !.transfers =
                                        (IF args.skip_nullifier_pda THEN <<>>
                                         ELSE <<Pay(args.fee_payer,
                                                    NullifierDuplicateAccountInfo,
                                                    Lamports(PdaRent))>>)
                                        \o <<Pay(args.fee_payer, VerificationAccountInfo,
                                                 Lamports(PdaRent))>>])

\* Token amounts are u64: TokenMax stands for u64::MAX
TokenMax == 5

\* the minimum fee of init_verification_transfer_fee, computed with the checked
\* arithmetic of Token: ((commitment_hash_fee_token + proof_verification_fee)?
\* + network_fee)? - subvention)?: [res, amount]
\* the mutant: the arithmetic wraps around instead of failing
minimum_fee_wrapping_mutant(args) ==
    LET sum == args.commitment_hash_fee_token + args.proof_verification_fee
               + args.network_fee
    IN  [res |-> OK, amount |-> (sum - args.subvention) % (TokenMax + 1)]

minimum_fee(args) ==
    LET sum == args.commitment_hash_fee_token + args.proof_verification_fee
               + args.network_fee
    IN  IF args.commitment_hash_fee_token + args.proof_verification_fee > TokenMax
        THEN [res |-> "MATH_ERR", amount |-> 0]
        ELSE IF sum > TokenMax THEN [res |-> "MATH_ERR", amount |-> 0]
        ELSE IF args.subvention > sum THEN [res |-> "MATH_ERR", amount |-> 0]
        ELSE [res |-> OK, amount |-> sum - args.subvention]

\* args: [fee_payer, governor_fee_version, min_batching_rate, commitment_hash_fee,
\*        commitment_hash_fee_token, proof_verification_fee, network_fee, subvention,
\*        accounts_valid, fee_payer_account_valid, associated_token_account_rent_token]
\*   the fee components and the rent are the amounts the governor's fee schedule
\*   and the prices give, in the statement's token; commitment_hash_fee is in lamports
init_verification_transfer_fee_any_state_mutant(p, a, args) ==
    LET va == p.acct[a]
    IN  IF va.state \in {"Absent", "Closed"} THEN Res("InvalidAccountState", p)
        ELSE IF va.fee_payer # args.fee_payer THEN Res("InvalidAccount", p)
        ELSE Res(OK, [p EXCEPT !.acct[a].state = "FeeTransferred"])

\* the mutant: the declared fee has to exceed the minimum
init_verification_transfer_fee_strict_mutant(p, a, args) ==
    LET va == p.acct[a]
        token_id == va.request.token_id
        is_ata == va.request.recipient_is_associated_token_account
        associated_token_account_rent == IF is_ata THEN spl_token_account_rent ELSE 0
        associated_token_account_rent_token ==
            IF is_ata THEN args.associated_token_account_rent_token ELSE 0
    IN  IF va.state # "None" THEN Res("InvalidAccountState", p)
        ELSE IF va.fee_payer # args.fee_payer THEN Res("InvalidAccount", p)
        ELSE IF va.request.fee_version # args.governor_fee_version
             THEN Res("InvalidFeeVersion", p)
        ELSE IF minimum_fee(args).res # OK THEN Res(minimum_fee(args).res, p)
        ELSE IF ~(va.request.fee > minimum_fee(args).amount)
             THEN Res("InvalidPublicInputs", p)
        ELSE IF ~args.accounts_valid THEN Res("InvalidAccount", p)
        ELSE IF is_ata /\ token_id = 0 THEN Res("InvalidPublicInputs", p)
        ELSE IF is_ata /\ ~(va.request.amount >= associated_token_account_rent_token)
             THEN Res("InvalidPublicInputs", p)
        ELSE IF args.commitment_hash_fee + associated_token_account_rent > TokenMax
             THEN Res("MATH_ERR", p)
        \* verify_token_account(fee_payer_token_account) comes after both transfers
        ELSE IF ~args.fee_payer_account_valid
             THEN Res("InvalidAccount",
                      [p EXCEPT
                         !.transfers =
                             <<Pay(args.fee_payer, Pool,
                                   Lamports(args.commitment_hash_fee
                                            + associated_token_account_rent)),
                               Pay(FeeCollector, Pool, Token(token_id, args.subvention))>>])
        ELSE Res(OK,
                 [p EXCEPT
                    !.transfers =
                        <<Pay(args.fee_payer, Pool,
                              Lamports(args.commitment_hash_fee
                                       + associated_token_account_rent)),
                          Pay(FeeCollector, Pool, Token(token_id, args.subvention))>>,
                    !.acct[a].recipient_wallet = ONone,
                    !.acct[a].data =
                        [min_batching_rate |-> args.min_batching_rate,
                         subvention |-> args.subvention,
                         network_fee |-> args.network_fee,
                         commitment_hash_fee |-> args.commitment_hash_fee,
                         commitment_hash_fee_token |-> args.commitment_hash_fee_token,
                         proof_verification_fee |-> args.proof_verification_fee,
                         associated_token_account_rent |->
                             associated_token_account_rent_token],
                    !.acct[a].state = "FeeTransferred"])

init_verification_transfer_fee(p, a, args) ==
    LET va == p.acct[a]
        token_id == va.request.token_id
        is_ata == va.request.recipient_is_associated_token_account
        associated_token_account_rent == IF is_ata THEN spl_token_account_rent ELSE 0
        associated_token_account_rent_token ==
            IF is_ata THEN args.associated_token_account_rent_token ELSE 0
    IN  IF va.state # "None" THEN Res("InvalidAccountState", p)
        ELSE IF va.fee_payer # args.fee_payer THEN Res("InvalidAccount", p)
        ELSE IF va.request.fee_version # args.governor_fee_version
             THEN Res("InvalidFeeVersion", p)
        ELSE IF minimum_fee(args).res # OK THEN Res(minimum_fee(args).res, p)
        ELSE IF ~(va.request.fee >= minimum_fee(args).amount)
             THEN Res("InvalidPublicInputs", p)
        ELSE IF ~args.accounts_valid THEN Res("InvalidAccount", p)
        ELSE IF is_ata /\ token_id = 0 THEN Res("InvalidPublicInputs", p)
        ELSE IF is_ata /\ ~(va.request.amount >= associated_token_account_rent_token)
             THEN Res("InvalidPublicInputs", p)
        ELSE IF args.commitment_hash_fee + associated_token_account_rent > TokenMax
             THEN Res("MATH_ERR", p)
        \* verify_token_account(fee_payer_token_account) comes after both transfers
        ELSE IF ~args.fee_payer_account_valid
             THEN Res("InvalidAccount",
                      [p EXCEPT
                         !.transfers =
                             <<Pay(args.fee_payer, Pool,
                                   Lamports(args.commitment_hash_fee
                                            + associated_token_account_rent)),
                               Pay(FeeCollector, Pool, Token(token_id, args.subvention))>>])
        ELSE Res(OK,
                 [p EXCEPT
                    !.transfers =
                        <<Pay(args.fee_payer, Pool,
                              Lamports(args.commitment_hash_fee
                                       + associated_token_account_rent)),
                          Pay(FeeCollector, Pool, Token(token_id, args.subvention))>>,
                    !.acct[a].recipient_wallet = ONone,
                    !.acct[a].data =
                        [min_batching_rate |-> args.min_batching_rate,
                         subvention |-> args.subvention,
                         network_fee |-> args.network_fee,
                         commitment_hash_fee |-> args.commitment_hash_fee,
                         commitment_hash_fee_token |-> args.commitment_hash_fee_token,
                         proof_verification_fee |-> args.proof_verification_fee,
                         associated_token_account_rent |->
                             associated_token_account_rent_token],
                    !.acct[a].state = "FeeTransferred"])

\* args: [fee_payer, proof]
init_verification_proof_any_state_mutant(p, a, args) ==
    LET va == p.acct[a]
    IN  IF va.state \in {"Absent", "Closed"} THEN Res("InvalidAccountState", p)
        ELSE IF va.is_verified # ONone THEN Res("ComputationIsAlreadyFinished", p)
        ELSE IF va.fee_payer # args.fee_payer THEN Res("InvalidAccount", p)
        ELSE Res(OK, [p EXCEPT !.acct[a].proof = args.proof,
                               !.acct[a].state = "ProofSetup"])

init_verification_proof_any_payer_mutant(p, a, args) ==
    LET va == p.acct[a]
    IN  IF va.state # "FeeTransferred" THEN Res("InvalidAccountState", p)
        ELSE IF va.is_verified # ONone THEN Res("ComputationIsAlreadyFinished", p)
        ELSE Res(OK, [p EXCEPT !.acct[a].proof = args.proof,
                               !.acct[a].state = "ProofSetup"])

\* the mutant: the proof is written before the guards that follow the state
init_verification_proof_write_first_mutant(p, a, args) ==
    LET va == p.acct[a]
        p1 == [p EXCEPT !.acct[a].proof = args.proof]
    IN  IF va.state # "FeeTransferred" THEN Res("InvalidAccountState", p)
        ELSE IF va.is_verified # ONone THEN Res("ComputationIsAlreadyFinished", p1)
        ELSE IF va.fee_payer # args.fee_payer THEN Res("InvalidAccount", p1)
        ELSE Res(OK, [p1 EXCEPT !.acct[a].state = "ProofSetup"])

init_verification_proof(p, a, args) ==
    LET va == p.acct[a]
    IN  IF va.state # "FeeTransferred" THEN Res("InvalidAccountState", p)
        ELSE IF va.is_verified # ONone THEN Res("ComputationIsAlreadyFinished", p)
        ELSE IF va.fee_payer # args.fee_payer THEN Res("InvalidAccount", p)
        ELSE Res(OK, [p EXCEPT !.acct[a].proof = args.proof,
                               !.acct[a].state = "ProofSetup"])

\* The outcomes of one step of verify_partial (and of VerifyingKey::new)
StepOutcomes == {"Ok(None)", "Ok(Some(true))", "Ok(Some(false))",
                 "Err(InvalidAccountState)", "Err(other)"}

\* args: [vkey_is_frozen, vkey_id, outcome]
compute_verification_overwrite_mutant(p, a, args) ==
    LET va == p.acct[a]
    IN  IF ~args.vkey_is_frozen THEN Res("InvalidAccount", p)
        ELSE IF va.vkey_id # args.vkey_id THEN Res("InvalidAccount", p)
        ELSE IF va.state \notin {"None", "ProofSetup"} THEN Res("InvalidAccountState", p)
        ELSE IF args.outcome = "Ok(None)" THEN Res(OK, p)
        ELSE IF args.outcome = "Ok(Some(true))"
             THEN Res(OK, [p EXCEPT !.acct[a].is_verified = Some(TRUE)])
        ELSE IF args.outcome = "Ok(Some(false))"
             THEN Res(OK, [p EXCEPT !.acct[a].is_verified = Some(FALSE)])
        ELSE IF args.outcome = "Err(InvalidAccountState)"
             THEN Res("InvalidAccountState", p)
        ELSE Res(OK, [p EXCEPT !.acct[a].is_verified = Some(FALSE)])

\* the mutant: every error of the step is returned
compute_verification_propagate_mutant(p, a, args) ==
    LET va == p.acct[a]
    IN  IF ~args.vkey_is_frozen THEN Res("InvalidAccount", p)
        ELSE IF va.vkey_id # args.vkey_id THEN Res("InvalidAccount", p)
        ELSE IF va.is_verified # ONone THEN Res("ComputationIsAlreadyFinished", p)
        ELSE IF va.state \notin {"None", "ProofSetup"} THEN Res("InvalidAccountState", p)
        ELSE IF args.outcome = "Ok(None)" THEN Res(OK, p)
        ELSE IF args.outcome = "Ok(Some(true))"
             THEN Res(OK, [p EXCEPT !.acct[a].is_verified = Some(TRUE)])
        ELSE IF args.outcome = "Ok(Some(false))"
             THEN Res(OK, [p EXCEPT !.acct[a].is_verified = Some(FALSE)])
        ELSE IF args.outcome = "Err(InvalidAccountState)"
             THEN Res("InvalidAccountState", p)
        ELSE Res("InvalidInstructionData", p)

\* the mutant: the computation also runs in FeeTransferred
compute_verification_any_state_mutant(p, a, args) ==
    LET va == p.acct[a]
    IN  IF ~args.vkey_is_frozen THEN Res("InvalidAccount", p)
        ELSE IF va.vkey_id # args.vkey_id THEN Res("InvalidAccount", p)
        ELSE IF va.is_verified # ONone THEN Res("ComputationIsAlreadyFinished", p)
        ELSE IF va.state \notin {"None", "FeeTransferred", "ProofSetup"}
             THEN Res("InvalidAccountState", p)
        ELSE IF args.outcome = "Ok(None)" THEN Res(OK, p)
        ELSE IF args.outcome = "Ok(Some(true))"
             THEN Res(OK, [p EXCEPT !.acct[a].is_verified = Some(TRUE)])
        ELSE IF args.outcome = "Ok(Some(false))"
             THEN Res(OK, [p EXCEPT !.acct[a].is_verified = Some(FALSE)])
        ELSE IF args.outcome = "Err(InvalidAccountState)"
             THEN Res("InvalidAccountState", p)
        ELSE Res(OK, [p EXCEPT !.acct[a].is_verified = Some(FALSE)])

compute_verification_reset_proof_mutant(p, a, args) ==
    LET va == p.acct[a]
    IN  IF ~args.vkey_is_frozen THEN Res("InvalidAccount", p)
        ELSE IF va.vkey_id # args.vkey_id THEN Res("InvalidAccount", p)
        ELSE IF va.is_verified # ONone THEN Res("ComputationIsAlreadyFinished", p)
        ELSE IF va.state \notin {"None", "ProofSetup"} THEN Res("InvalidAccountState", p)
        ELSE IF args.outcome = "Ok(None)" THEN Res(OK, p)
        ELSE IF args.outcome = "Ok(Some(true))"
             THEN Res(OK, [p EXCEPT !.acct[a].is_verified = Some(TRUE),
                                    !.acct[a].proof = NoProof])
        ELSE IF args.outcome = "Ok(Some(false))"
             THEN Res(OK, [p EXCEPT !.acct[a].is_verified = Some(FALSE)])
        ELSE IF args.outcome = "Err(InvalidAccountState)"
             THEN Res("InvalidAccountState", p)
        ELSE Res(OK, [p EXCEPT !.acct[a].is_verified = Some(FALSE)])

compute_verification(p, a, args) ==
    LET va == p.acct[a]
    IN  IF ~args.vkey_is_frozen THEN Res("InvalidAccount", p)
        ELSE IF va.vkey_id # args.vkey_id THEN Res("InvalidAccount", p)
        ELSE IF va.is_verified # ONone THEN Res("ComputationIsAlreadyFinished", p)
        ELSE IF va.state \notin {"None", "ProofSetup"} THEN Res("InvalidAccountState", p)
        ELSE IF args.outcome = "Ok(None)" THEN Res(OK, p)
        ELSE IF args.outcome = "Ok(Some(true))"
             THEN Res(OK, [p EXCEPT !.acct[a].is_verified = Some(TRUE)])
        ELSE IF args.outcome = "Ok(Some(false))"
             THEN Res(OK, [p EXCEPT !.acct[a].is_verified = Some(FALSE)])
        ELSE IF args.outcome = "Err(InvalidAccountState)"
             THEN Res("InvalidAccountState", p)
        ELSE Res(OK, [p EXCEPT !.acct[a].is_verified = Some(FALSE)])

\* the key of the instructions sysvar account: passed as transaction_reference
\* when no reference is used
InstructionsAccount == "instructions_account"
Reference == "reference"
Memo == "memo"

\* the memo of finalize_verification_send: none without uses_memo, else the data of
\* the memo instruction of the transaction (memo_instruction: that data, or
\* NoInstruction when the transaction has no memo instruction at the position):
\* [res, memo]
get_memo_from_instructions(uses_memo, memo_instruction) ==
    IF ~uses_memo THEN [res |-> OK, memo |-> NoMemo]
    ELSE IF memo_instruction = NoInstruction
         THEN [res |-> "InvalidOtherInstruction", memo |-> NoMemo]
    ELSE [res |-> OK, memo |-> memo_instruction]

\* args: [recipient, identifier, transaction_reference, uses_memo, memo_instruction,
\*        timestamp, total_amount, token_id, mt_index, commitment_index, iv,
\*        encrypted_owner]; ixs, ix_index: the instructions sysvar
\* the mutant: no check that the verdict is recorded
finalize_verification_send_unfinished_mutant(p, a, args, ixs, ix_index) ==
    LET va == p.acct[a]
        public_inputs == va.request
        memo == get_memo_from_instructions(args.uses_memo, args.memo_instruction)
        hash == generate_hashed_inputs(args.recipient, args.identifier, args.iv,
                                       args.encrypted_owner,
                                       IF args.transaction_reference # InstructionsAccount
                                       THEN args.transaction_reference
                                       ELSE NoReference,
                                       public_inputs.recipient_is_associated_token_account,
                                       memo.memo)
        p1 == [p EXCEPT !.acct[a].recipient_wallet = args.recipient]
        min == minimum_commitment_mt_index(storage.trees_count,
                                           storage.next_commitment_ptr, len(p.queue))
    IN  IF va.state # "ProofSetup" THEN Res("InvalidAccountState", p)
        ELSE IF public_inputs.kind # "Send" THEN Res("FeatureNotAvailable", p)
        ELSE IF memo.res # OK THEN Res(memo.res, p)
        ELSE IF hash # public_inputs.hashed_inputs THEN Res("InputsMismatch", p)
        ELSE IF va.is_verified = Some(FALSE)
             THEN Res(OK, [p1 EXCEPT !.acct[a].state = "Finalized"])
        ELSE LET enforced == enforce_finalize_send_instructions(
                                ixs, ix_index, 0, Len(public_inputs.input_commitments),
                                public_inputs.token_id = 0)
             IN  IF enforced # OK THEN Res(enforced, p1)
                 ELSE IF args.timestamp # public_inputs.current_time
                      THEN Res("InputsMismatch", p1)
                 ELSE IF args.total_amount # public_inputs.total_amount
                      THEN Res("InputsMismatch", p1)
                 ELSE IF args.token_id # public_inputs.token_id
                      THEN Res("InputsMismatch", p1)
                 ELSE IF ~(args.commitment_index <= min[1]) THEN Res("InputsMismatch", p1)
                 ELSE IF args.mt_index # min[2] THEN Res("InputsMismatch", p1)
                 ELSE Res(OK, [p1 EXCEPT !.acct[a].state = "InsertNullifiers"])

\* the mutant: no check of hashed_inputs
finalize_verification_send_unbound_mutant(p, a, args, ixs, ix_index) ==
    LET va == p.acct[a]
        public_inputs == va.request
        memo == get_memo_from_instructions(args.uses_memo, args.memo_instruction)
        hash == generate_hashed_inputs(args.recipient, args.identifier, args.iv,
                                       args.encrypted_owner,
                                       IF args.transaction_reference # InstructionsAccount
                                       THEN args.transaction_reference
                                       ELSE NoReference,
                                       public_inputs.recipient_is_associated_token_account,
                                       memo.memo)
        p1 == [p EXCEPT !.acct[a].recipient_wallet = args.recipient]
        min == minimum_commitment_mt_index(storage.trees_count,
                                           storage.next_commitment_ptr, len(p.queue))
    IN  IF va.state # "ProofSetup" THEN Res("InvalidAccountState", p)
        ELSE IF public_inputs.kind # "Send" THEN Res("FeatureNotAvailable", p)
        ELSE IF memo.res # OK THEN Res(memo.res, p)
        ELSE IF va.is_verified = ONone THEN Res("ComputationIsNotYetFinished", p1)
        ELSE IF va.is_verified = Some(FALSE)
             THEN Res(OK, [p1 EXCEPT !.acct[a].state = "Finalized"])
        ELSE LET enforced == enforce_finalize_send_instructions(
                                ixs, ix_index, 0, Len(public_inputs.input_commitments),
                                public_inputs.token_id = 0)
             IN  IF enforced # OK THEN Res(enforced, p1)
                 ELSE IF args.timestamp # public_inputs.current_time
                      THEN Res("InputsMismatch", p1)
                 ELSE IF args.total_amount # public_inputs.total_amount
                      THEN Res("InputsMismatch", p1)
                 ELSE IF args.token_id # public_inputs.token_id
                      THEN Res("InputsMismatch", p1)
                 ELSE IF ~(args.commitment_index <= min[1]) THEN Res("InputsMismatch", p1)
                 ELSE IF args.mt_index # min[2] THEN Res("InputsMismatch", p1)
                 ELSE Res(OK, [p1 EXCEPT !.acct[a].state = "InsertNullifiers"])

finalize_verification_send(p, a, args, ixs, ix_index) ==
    LET va == p.acct[a]
        public_inputs == va.request
        memo == get_memo_from_instructions(args.uses_memo, args.memo_instruction)
        hash == generate_hashed_inputs(args.recipient, args.identifier, args.iv,
                                       args.encrypted_owner,
                                       IF args.transaction_reference # InstructionsAccount
                                       THEN args.transaction_reference
                                       ELSE NoReference,
                                       public_inputs.recipient_is_associated_token_account,
                                       memo.memo)
        p1 == [p EXCEPT !.acct[a].recipient_wallet = args.recipient]
        min == minimum_commitment_mt_index(storage.trees_count,
                                           storage.next_commitment_ptr, len(p.queue))
    IN  IF va.state # "ProofSetup" THEN Res("InvalidAccountState", p)
        ELSE IF public_inputs.kind # "Send" THEN Res("FeatureNotAvailable", p)
        ELSE IF memo.res # OK THEN Res(memo.res, p)
        ELSE IF hash # public_inputs.hashed_inputs THEN Res("InputsMismatch", p)
        ELSE IF va.is_verified = ONone THEN Res("ComputationIsNotYetFinished", p1)
        ELSE IF va.is_verified = Some(FALSE)
             THEN Res(OK, [p1 EXCEPT !.acct[a].state = "Finalized"])
        ELSE LET enforced == enforce_finalize_send_instructions(
                                ixs, ix_index, 0, Len(public_inputs.input_commitments),
                                public_inputs.token_id = 0)
             IN  IF enforced # OK THEN Res(enforced, p1)
                 ELSE IF args.timestamp # public_inputs.current_time
                      THEN Res("InputsMismatch", p1)
                 ELSE IF args.total_amount # public_inputs.total_amount
                      THEN Res("InputsMismatch", p1)
                 ELSE IF args.token_id # public_inputs.token_id
                      THEN Res("InputsMismatch", p1)
                 ELSE IF ~(args.commitment_index <= min[1]) THEN Res("InputsMismatch", p1)
                 ELSE IF args.mt_index # min[2] THEN Res("InputsMismatch", p1)
                 ELSE Res(OK, [p1 EXCEPT !.acct[a].state = "InsertNullifiers"])

\* the nullifier account finalize_verification_send_nullifier is given: the one of the
\* first tree of the statement
send_nullifier_account(va) == va.tree_indices[1]

\* the loop of finalize_verification_send_nullifier from input index (from 1), where
\* tree_index roots have been seen: [res, set]
RECURSIVE send_nullifier_loop_unchecked_mutant(_, _, _, _, _)
send_nullifier_loop_unchecked_mutant(ics, index, tree_index, input_commitment_index, set) ==
    IF index > Len(ics) THEN [res |-> OK, set |-> set]
    ELSE LET t == IF ics[index].root # NoRoot THEN tree_index ELSE 0
             next == IF ics[index].root # NoRoot THEN tree_index + 1 ELSE tree_index
         IN  IF t # 0 THEN [res |-> "FeatureNotAvailable", set |-> set]
             ELSE IF index - 1 = input_commitment_index
                  THEN [res |-> OK, set |-> set \cup {ics[index].nullifier_hash}]
             ELSE send_nullifier_loop_unchecked_mutant(ics, index + 1, next,
                                                       input_commitment_index, set)

RECURSIVE send_nullifier_loop(_, _, _, _, _)
send_nullifier_loop(ics, index, tree_index, input_commitment_index, set) ==
    IF index > Len(ics) THEN [res |-> OK, set |-> set]
    ELSE LET t == IF ics[index].root # NoRoot THEN tree_index ELSE 0
             next == IF ics[index].root # NoRoot THEN tree_index + 1 ELSE tree_index
         IN  IF t # 0 THEN [res |-> "FeatureNotAvailable", set |-> set]
             ELSE IF index - 1 = input_commitment_index
                  THEN try_insert_nullifier_hash(set, ics[index].nullifier_hash)
             ELSE send_nullifier_loop(ics, index + 1, next, input_commitment_index, set)

\* args: [input_commitment_index]
finalize_verification_send_nullifier(p, a, args, ixs, ix_index) ==
    LET va == p.acct[a]
        public_inputs == va.request
        ics == public_inputs.input_commitments
        input_commitment_index == args.input_commitment_index
        enforced == enforce_finalize_send_instructions(ixs, ix_index,
                                                       input_commitment_index + 1, Len(ics),
                                                       public_inputs.token_id = 0)
        t == send_nullifier_account(va)
        looped == send_nullifier_loop(ics, 1, 0, input_commitment_index, p.nullifiers[t])
        p1 == [p EXCEPT !.nullifiers[t] = looped.set]
    IN  IF va.state # "InsertNullifiers" THEN Res("InvalidAccountState", p)
        ELSE IF public_inputs.kind # "Send" THEN Res("FeatureNotAvailable", p)
        ELSE IF enforced # OK THEN Res(enforced, p)
        ELSE IF looped.res # OK THEN Res(looped.res, p)
        ELSE IF input_commitment_index = Len(ics) - 1
             THEN Res(OK, [p1 EXCEPT !.acct[a].state = "Finalized"])
        ELSE Res(OK, p1)

\* close_verification_pdas: the NullifierDuplicateAccounts left (the verification
\* account itself is marked by its state Closed)
close_verification_pdas_always_mutant(existing, nullifier_duplicate_account, skipped_nullifier_pda) ==
    existing \ {nullifier_duplicate_account}

close_verification_pdas(existing, nullifier_duplicate_account, skipped_nullifier_pda) ==
    IF ~skipped_nullifier_pda THEN existing \ {nullifier_duplicate_account} ELSE existing

\* close_account of both PDAs: all lamports of the closed accounts go to the
\* beneficiary
close_verification_pdas_rent(va, existing, nullifier_duplicate_account, beneficiary) ==
    <<Pay(VerificationAccountInfo, beneficiary, Lamports(va.lamports))>>
    \o (IF ~va.skip_nullifier_pda
        THEN <<Pay(NullifierDuplicateAccountInfo, beneficiary,
                   Lamports(IF nullifier_duplicate_account \in existing
                            THEN PdaRent ELSE 0))>>
        ELSE <<>>)

\* U256::reduce of the output commitment
reduce(commitment) == [reduced |-> commitment]

\* CommitmentHashRequest of a statement and the data recorded at the fee transfer
CommitmentHashRequest(join_split, data) ==
    [commitment |-> reduce(join_split.output_commitment),
     fee_version |-> join_split.fee_version,
     min_batching_rate |-> data.min_batching_rate]

\* a zeroed element of the commitment queue account
ZeroRequest ==
    [commitment |-> reduce("zero"), fee_version |-> 0, min_batching_rate |-> 0]

\* the mutant: the request carries no batching rate
close_and_enqueue_zero_rate_mutant(p, a, nullifier_duplicate_account, paid) ==
    LET va == p.acct[a]
        enqueued == enqueue(p.queue, CommitmentHashRequest(va.request, NoData))
    IN  IF enqueued.res # OK THEN Res(enqueued.res, p)
        ELSE Res(OK, [p EXCEPT !.nda = close_verification_pdas(p.nda,
                                                               nullifier_duplicate_account,
                                                               va.skip_nullifier_pda),
                               !.queue = enqueued.q,
                               !.acct[a].lamports = 0,
                               !.acct[a].state = "Closed",
                               !.transfers = paid])

close_and_enqueue_skip_full_mutant(p, a, nullifier_duplicate_account, paid) ==
    LET va == p.acct[a]
        enqueued == enqueue(p.queue, CommitmentHashRequest(va.request, va.data))
    IN  Res(OK, [p EXCEPT !.nda = close_verification_pdas(p.nda,
                                                          nullifier_duplicate_account,
                                                          va.skip_nullifier_pda),
                          !.queue = enqueued.q,
                          !.acct[a].lamports = 0,
                          !.acct[a].state = "Closed",
                          !.transfers = paid])

\* the tail of both terminal transfers with an accepted proof, the payments made:
\* close the PDAs, enqueue the commitment, Closed
close_and_enqueue(p, a, nullifier_duplicate_account, paid) ==
    LET va == p.acct[a]
        enqueued == enqueue(p.queue, CommitmentHashRequest(va.request, va.data))
    IN  IF enqueued.res # OK THEN Res(enqueued.res, p)
        ELSE Res(OK, [p EXCEPT !.nda = close_verification_pdas(p.nda,
                                                               nullifier_duplicate_account,
                                                               va.skip_nullifier_pda),
                               !.queue = enqueued.q,
                               !.acct[a].lamports = 0,
                               !.acct[a].state = "Closed",
                               !.transfers = paid])

\* args: [original_fee_payer, recipient, nullifier_duplicate_account]
finalize_verification_transfer_lamports_refund_mutant(p, a, args, ixs, ix_index) ==
    LET va == p.acct[a]
        data == va.data
        join_split == va.request
        n == Len(join_split.input_commitments)
        enforced == enforce_finalize_send_instructions(ixs, ix_index, n + 1, n,
                                                       join_split.token_id = 0)
    IN  IF join_split.token_id # 0 THEN Res("InvalidAccountState", p)
        ELSE IF va.state # "Finalized" THEN Res("InvalidAccountState", p)
        ELSE IF args.original_fee_payer # va.fee_payer THEN Res("InvalidAccount", p)
        ELSE IF args.nullifier_duplicate_account
                    # associated_nullifier_duplicate_pda_pubkey(join_split)
             THEN Res("InvalidAccount", p)
        ELSE IF va.is_verified = Some(FALSE)
             THEN Res(OK, [p EXCEPT !.nda = IF ~va.skip_nullifier_pda
                                            THEN p.nda \ {args.nullifier_duplicate_account}
                                            ELSE p.nda,
                                    !.acct[a].lamports = 0,
                                    !.acct[a].state = "Closed",
                                    !.transfers =
                                        close_verification_pdas_rent(
                                            va, p.nda, args.nullifier_duplicate_account,
                                            args.original_fee_payer)
                                        \o <<Pay(Pool, FeeCollector,
                                                 Lamports(data.subvention)),
                                             Pay(Pool, FeeCollector,
                                                 Lamports(data.commitment_hash_fee))>>])
        ELSE IF va.request.kind = "Send" /\ enforced # OK THEN Res(enforced, p)
        ELSE IF va.request.kind = "Send" /\ va.recipient_wallet = ONone THEN Res("Panic", p)
        ELSE IF va.request.kind = "Send" /\ args.recipient # va.recipient_wallet
             THEN Res("InvalidAccount", p)
        ELSE IF data.commitment_hash_fee_token + data.proof_verification_fee > TokenMax
             THEN Res("MATH_ERR", p)
        ELSE close_and_enqueue(
                 p, a, args.nullifier_duplicate_account,
                 (IF va.request.kind = "Send"
                  THEN <<Pay(Pool, args.recipient, Lamports(join_split.amount))>>
                  ELSE <<>>)
                 \o <<Pay(Pool, args.original_fee_payer,
                          Lamports(data.commitment_hash_fee_token
                                   + data.proof_verification_fee)),
                      Pay(Pool, FeeCollector, Lamports(data.network_fee))>>
                 \o close_verification_pdas_rent(va, p.nda,
                                                 args.nullifier_duplicate_account,
                                                 args.original_fee_payer))

\* the mutant: the recipient is not compared with the recorded one
finalize_verification_transfer_lamports_any_recipient_mutant(p, a, args, ixs, ix_index) ==
    LET va == p.acct[a]
        data == va.data
        join_split == va.request
        n == Len(join_split.input_commitments)
        enforced == enforce_finalize_send_instructions(ixs, ix_index, n + 1, n,
                                                       join_split.token_id = 0)
    IN  IF join_split.token_id # 0 THEN Res("InvalidAccountState", p)
        ELSE IF va.state # "Finalized" THEN Res("InvalidAccountState", p)
        ELSE IF args.original_fee_payer # va.fee_payer THEN Res("InvalidAccount", p)
        ELSE IF args.nullifier_duplicate_account
                    # associated_nullifier_duplicate_pda_pubkey(join_split)
             THEN Res("InvalidAccount", p)
        ELSE IF va.is_verified = Some(FALSE)
             THEN Res(OK, [p EXCEPT !.nda = IF ~va.skip_nullifier_pda
                                            THEN p.nda \ {args.nullifier_duplicate_account}
                                            ELSE p.nda,
                                    !.acct[a].lamports = 0,
                                    !.acct[a].state = "Closed",
                                    !.transfers =
                                        close_verification_pdas_rent(
                                            va, p.nda, args.nullifier_duplicate_account,
                                            FeeCollector)
                                        \o <<Pay(Pool, FeeCollector,
                                                 Lamports(data.subvention)),
                                             Pay(Pool, FeeCollector,
                                                 Lamports(data.commitment_hash_fee))>>])
        ELSE IF va.request.kind = "Send" /\ enforced # OK THEN Res(enforced, p)
        ELSE IF va.request.kind = "Send" /\ va.recipient_wallet = ONone THEN Res("Panic", p)
        ELSE IF data.commitment_hash_fee_token + data.proof_verification_fee > TokenMax
             THEN Res("MATH_ERR", p)
        ELSE close_and_enqueue(
                 p, a, args.nullifier_duplicate_account,
                 (IF va.request.kind = "Send"
                  THEN <<Pay(Pool, args.recipient, Lamports(join_split.amount))>>
                  ELSE <<>>)
                 \o <<Pay(Pool, args.original_fee_payer,
                          Lamports(data.commitment_hash_fee_token
                                   + data.proof_verification_fee)),
                      Pay(Pool, FeeCollector, Lamports(data.network_fee))>>
                 \o close_verification_pdas_rent(va, p.nda,
                                                 args.nullifier_duplicate_account,
                                                 args.original_fee_payer))

finalize_verification_transfer_lamports(p, a, args, ixs, ix_index) ==
    LET va == p.acct[a]
        data == va.data
        join_split == va.request
        n == Len(join_split.input_commitments)
        enforced == enforce_finalize_send_instructions(ixs, ix_index, n + 1, n,
                                                       join_split.token_id = 0)
        \* the last instruction a solana_pay_transfer asks for
        pay_enforced ==
            enforce_instruction(ixs, Len(ixs) - 1,
                                system_transfer(args.original_fee_payer, args.recipient,
                                                join_split.amount),
                                FALSE)
    IN  IF join_split.token_id # 0 THEN Res("InvalidAccountState", p)
        ELSE IF va.state # "Finalized" THEN Res("InvalidAccountState", p)
        ELSE IF args.original_fee_payer # va.fee_payer THEN Res("InvalidAccount", p)
        ELSE IF args.nullifier_duplicate_account
                    # associated_nullifier_duplicate_pda_pubkey(join_split)
             THEN Res("InvalidAccount", p)
        ELSE IF va.is_verified = Some(FALSE)
             THEN Res(OK, [p EXCEPT !.nda = IF ~va.skip_nullifier_pda
                                            THEN p.nda \ {args.nullifier_duplicate_account}
                                            ELSE p.nda,
                                    !.acct[a].lamports = 0,
                                    !.acct[a].state = "Closed",
                                    !.transfers =
                                        close_verification_pdas_rent(
                                            va, p.nda, args.nullifier_duplicate_account,
                                            FeeCollector)
                                        \o <<Pay(Pool, FeeCollector,
                                                 Lamports(data.subvention)),
                                             Pay(Pool, FeeCollector,
                                                 Lamports(data.commitment_hash_fee))>>])
        ELSE IF va.request.kind = "Send" /\ enforced # OK THEN Res(enforced, p)
        ELSE IF va.request.kind = "Send" /\ va.recipient_wallet = ONone THEN Res("Panic", p)
        ELSE IF va.request.kind = "Send" /\ args.recipient # va.recipient_wallet
             THEN Res("InvalidAccount", p)
        ELSE IF va.request.kind = "Send" /\ join_split.solana_pay_transfer
                    /\ pay_enforced # OK
             THEN Res(pay_enforced, p)
        ELSE IF data.commitment_hash_fee_token + data.proof_verification_fee > TokenMax
             THEN Res("MATH_ERR", p)
        ELSE close_and_enqueue(
                 p, a, args.nullifier_duplicate_account,
                 (IF va.request.kind = "Send"
                  THEN <<Pay(Pool,
                             IF join_split.solana_pay_transfer
                             THEN args.original_fee_payer ELSE args.recipient,
                             Lamports(join_split.amount))>>
                  ELSE <<>>)
                 \o <<Pay(Pool, args.original_fee_payer,
                          Lamports(data.commitment_hash_fee_token
                                   + data.proof_verification_fee)),
                      Pay(Pool, FeeCollector, Lamports(data.network_fee))>>
                 \o close_verification_pdas_rent(va, p.nda,
                                                 args.nullifier_duplicate_account,
                                                 args.original_fee_payer))

\* args: [original_fee_payer, original_fee_payer_account_valid, recipient,
\*        recipient_wallet, recipient_is_token_account,
\*        associated_token_account_valid, recipient_exists, mint_valid,
\*        nullifier_duplicate_account, token_accounts_valid]
\*   recipient_is_token_account: verify_token_account(recipient) gives Ok(true);
\*   recipient_exists: recipient.lamports() is not 0
finalize_verification_transfer_token_no_fallback_mutant(p, a, args, ixs, ix_index) ==
    LET va == p.acct[a]
        data == va.data
        join_split == va.request
        token_id == join_split.token_id
        n == Len(join_split.input_commitments)
        enforced == enforce_finalize_send_instructions(ixs, ix_index, n + 1, n,
                                                       join_split.token_id = 0)
        is_send == va.request.kind = "Send"
        is_ata == join_split.recipient_is_associated_token_account
        actual_recipient == args.recipient
        \* associated_token_account_rent_token.unwrap_or(0)
        rent_token ==
            IF is_send /\ is_ata /\ ~args.recipient_exists
            THEN data.associated_token_account_rent
            ELSE 0
        refund == data.commitment_hash_fee_token + data.proof_verification_fee
    IN  IF va.recipient_wallet = ONone THEN Res("Panic", p)
        ELSE IF ~(token_id > 0) THEN Res("InvalidAccountState", p)
        ELSE IF va.state # "Finalized" THEN Res("InvalidAccountState", p)
        ELSE IF args.original_fee_payer # va.fee_payer THEN Res("InvalidAccount", p)
        ELSE IF ~args.original_fee_payer_account_valid THEN Res("InvalidAccount", p)
        ELSE IF args.nullifier_duplicate_account
                    # associated_nullifier_duplicate_pda_pubkey(join_split)
             THEN Res("InvalidAccount", p)
        ELSE IF ~args.token_accounts_valid THEN Res("InvalidAccount", p)
        ELSE IF va.is_verified = Some(FALSE)
             THEN Res(OK, [p EXCEPT !.nda = close_verification_pdas(
                                                p.nda, args.nullifier_duplicate_account,
                                                va.skip_nullifier_pda),
                                    !.acct[a].lamports = 0,
                                    !.acct[a].state = "Closed",
                                    !.transfers =
                                        close_verification_pdas_rent(
                                            va, p.nda, args.nullifier_duplicate_account,
                                            FeeCollector)
                                        \o <<Pay(Pool, FeeCollector,
                                                 Token(token_id, data.subvention)),
                                             Pay(Pool, FeeCollector,
                                                 Lamports(data.commitment_hash_fee
                                                          + spl_token_account_rent))>>])
        ELSE IF is_send /\ enforced # OK THEN Res(enforced, p)
        ELSE IF is_send /\ ~is_ata /\ args.recipient # va.recipient_wallet
             THEN Res("InvalidAccount", p)
        ELSE IF is_send /\ is_ata /\ args.recipient_wallet # va.recipient_wallet
             THEN Res("InvalidAccount", p)
        ELSE IF is_send /\ is_ata /\ ~args.associated_token_account_valid
             THEN Res("InvalidAccount", p)
        ELSE IF is_send /\ is_ata /\ ~args.recipient_exists /\ ~args.mint_valid
             THEN Res("InvalidAccount", p)
        ELSE IF is_send /\ join_split.amount < rent_token THEN Res("Panic", p)
        ELSE IF refund > TokenMax \/ refund + rent_token > TokenMax
             THEN Res("MATH_ERR", p)
        ELSE close_and_enqueue(
                 p, a, args.nullifier_duplicate_account,
                 (IF is_send /\ is_ata /\ ~args.recipient_exists
                  THEN <<Pay(args.original_fee_payer, args.recipient,
                             Lamports(spl_token_account_rent))>>
                  ELSE <<>>)
                 \o (IF is_send
                     THEN <<Pay(Pool, actual_recipient,
                                Token(token_id, join_split.amount - rent_token))>>
                     ELSE <<>>)
                 \o <<Pay(Pool, args.original_fee_payer,
                          Token(token_id, refund + rent_token)),
                      Pay(Pool, FeeCollector, Token(token_id, data.network_fee))>>
                 \o close_verification_pdas_rent(va, p.nda,
                                                 args.nullifier_duplicate_account,
                                                 args.original_fee_payer)
                 \o (IF is_send /\ is_ata
                     THEN <<Pay(Pool, args.original_fee_payer,
                                Lamports(spl_token_account_rent))>>
                     ELSE <<>>))

finalize_verification_transfer_token(p, a, args, ixs, ix_index) ==
    LET va == p.acct[a]
        data == va.data
        join_split == va.request
        token_id == join_split.token_id
        n == Len(join_split.input_commitments)
        enforced == enforce_finalize_send_instructions(ixs, ix_index, n + 1, n,
                                                       join_split.token_id = 0)
        is_send == va.request.kind = "Send"
        is_ata == join_split.recipient_is_associated_token_account
        actual_recipient ==
            IF ~is_ata /\ ~args.recipient_is_token_account THEN FeeCollector
            ELSE args.recipient
        \* associated_token_account_rent_token.unwrap_or(0)
        rent_token ==
            IF is_send /\ is_ata /\ ~args.recipient_exists
            THEN data.associated_token_account_rent
            ELSE 0
        refund == data.commitment_hash_fee_token + data.proof_verification_fee
    IN  IF va.recipient_wallet = ONone THEN Res("Panic", p)
        ELSE IF ~(token_id > 0) THEN Res("InvalidAccountState", p)
        ELSE IF va.state # "Finalized" THEN Res("InvalidAccountState", p)
        ELSE IF args.original_fee_payer # va.fee_payer THEN Res("InvalidAccount", p)
        ELSE IF ~args.original_fee_payer_account_valid THEN Res("InvalidAccount", p)
        ELSE IF args.nullifier_duplicate_account
                    # associated_nullifier_duplicate_pda_pubkey(join_split)
             THEN Res("InvalidAccount", p)
        ELSE IF ~args.token_accounts_valid THEN Res("InvalidAccount", p)
        ELSE IF va.is_verified = Some(FALSE)
             THEN Res(OK, [p EXCEPT !.nda = close_verification_pdas(
                                                p.nda, args.nullifier_duplicate_account,
                                                va.skip_nullifier_pda),
                                    !.acct[a].lamports = 0,
                                    !.acct[a].state = "Closed",
                                    !.transfers =
                                        close_verification_pdas_rent(
                                            va, p.nda, args.nullifier_duplicate_account,
                                            FeeCollector)
                                        \o <<Pay(Pool, FeeCollector,
                                                 Token(token_id, data.subvention)),
                                             Pay(Pool, FeeCollector,
                                                 Lamports(data.commitment_hash_fee
                                                          + spl_token_account_rent))>>])
        ELSE IF is_send /\ enforced # OK THEN Res(enforced, p)
        ELSE IF is_send /\ ~is_ata /\ args.recipient # va.recipient_wallet
             THEN Res("InvalidAccount", p)
        ELSE IF is_send /\ is_ata /\ args.recipient_wallet # va.recipient_wallet
             THEN Res("InvalidAccount", p)
        ELSE IF is_send /\ is_ata /\ ~args.associated_token_account_valid
             THEN Res("InvalidAccount", p)
        ELSE IF is_send /\ is_ata /\ ~args.recipient_exists /\ ~args.mint_valid
             THEN Res("InvalidAccount", p)
        ELSE IF is_send /\ join_split.amount < rent_token THEN Res("Panic", p)
        ELSE IF refund > TokenMax \/ refund + rent_token > TokenMax
             THEN Res("MATH_ERR", p)
        ELSE close_and_enqueue(
                 p, a, args.nullifier_duplicate_account,
                 (IF is_send /\ is_ata /\ ~args.recipient_exists
                  THEN <<Pay(args.original_fee_payer, args.recipient,
                             Lamports(spl_token_account_rent))>>
                  ELSE <<>>)
                 \o (IF is_send
                     THEN <<Pay(Pool, actual_recipient,
                                Token(token_id, join_split.amount - rent_token))>>
                     ELSE <<>>)
                 \o <<Pay(Pool, args.original_fee_payer,
                          Token(token_id, refund + rent_token)),
                      Pay(Pool, FeeCollector, Token(token_id, data.network_fee))>>
                 \o close_verification_pdas_rent(va, p.nda,
                                                 args.nullifier_duplicate_account,
                                                 args.original_fee_payer)
                 \o (IF is_send /\ is_ata
                     THEN <<Pay(Pool, args.original_fee_payer,
                                Lamports(spl_token_account_rent))>>
                     ELSE <<>>))

----------------------------------------------------------------------------
(* Transactions.  Instructions run inside a transaction of at most MaxTxLen *)
(* instructions; when one fails the whole transaction is discarded and the  *)
(* program state is the one before it.  tx.ixs is the instruction list as   *)
(* far as it is determined: the kinds of the instructions executed, and,    *)
(* once a handler has read the instructions sysvar (tx.fixed), the whole    *)
(* list.  tx.pc is the position (from 1) of the next instruction.           *)

Idle == [ixs |-> <<>>, pc |-> 1, fixed |-> FALSE]
NoSnap == <<>>

Extensions(n) == UNION {[1..k -> IxKinds] : k \in 0..n}

\* an instruction of this kind can be the next one of the transaction
CanRun(kind) ==
    IF tx.fixed THEN tx.pc <= Len(tx.ixs) /\ tx.ixs[tx.pc] = kind
    ELSE Len(tx.ixs) < MaxTxLen

\* the instruction list as far as determined once an instruction of this kind has run
Executed(kind) == IF tx.fixed THEN tx.ixs ELSE Append(tx.ixs, kind)

\* the instruction lists the next instruction may find in the sysvar
Views(kind, reads) ==
    IF ~tx.fixed /\ reads
    THEN {Append(tx.ixs, kind) \o e : e \in Extensions(MaxTxLen - Len(tx.ixs) - 1)}
    ELSE {Executed(kind)}

\* load_current_index_checked
current_index == tx.pc - 1

\* The effect of an instruction that returned r, ixs being the instruction list as
\* far as determined after it: on success the program state it leaves, and after
\* the last instruction the end of the transaction (a list not yet determined ends
\* here or goes on, unless last_one); on an error the program state before the
\* transaction.
Execute(r, ixs, reads, last_one) ==
    /\ IF r.res = OK
       THEN /\ acct' = r.p.acct
            /\ nullifiers' = r.p.nullifiers
            /\ nda' = r.p.nda
            /\ queue' = r.p.queue
            /\ balance' = settle(balance, r.p.transfers)
            /\ \E more \in (IF tx.fixed \/ reads THEN {tx.pc < Len(ixs)}
                            ELSE IF last_one \/ tx.pc >= MaxTxLen THEN {FALSE}
                            ELSE BOOLEAN) :
                 /\ tx' = IF more
                          THEN [ixs |-> ixs, pc |-> tx.pc + 1, fixed |-> tx.fixed \/ reads]
                          ELSE Idle
                 /\ snap' = IF ~more THEN NoSnap
                            ELSE IF tx.pc = 1 THEN Program
                            ELSE snap
       ELSE IF tx.pc = 1
            THEN UNCHANGED <<acct, nullifiers, nda, queue, tx, snap, balance>>
            ELSE /\ acct' = snap.acct
                 /\ nullifiers' = snap.nullifiers
                 /\ nda' = snap.nda
                 /\ queue' = snap.queue
                 /\ balance' = snap.balance
                 /\ tx' = Idle
                 /\ snap' = NoSnap
    /\ UNCHANGED <<fifo, inserted, last, array>>

----------------------------------------------------------------------------
(* The arguments the handlers are called with *)

InitData(sub, skip) ==
    [fee_payer |-> Creator,
     vkey_is_frozen |-> TRUE,
     vkey_id |-> request_vkey_id(sub.request),
     verification_account_index |-> 0,
     timestamp |-> 32,
     nullifier_duplicate_account |-> associated_nullifier_duplicate_pda_pubkey(sub.request),
     request |-> sub.request,
     tree_indices |-> sub.tree_indices,
     skip_nullifier_pda |-> skip]

SomeSubmission ==
    [request |-> SendRequest(<<In(ValidRoot, 1)>>, 0, Commitment), tree_indices |-> <<0, 1>>]

InitArgs ==
    {InitData(sub, skip) : sub \in Submissions, skip \in BOOLEAN}
    \cup {[InitData(SomeSubmission, skip) EXCEPT !.vkey_is_frozen = FALSE] : skip \in BOOLEAN}
    \cup {[InitData(SomeSubmission, skip) EXCEPT !.vkey_id = MigrateUnaryVKey] : skip \in BOOLEAN}
    \cup {[InitData(SomeSubmission, skip) EXCEPT !.verification_account_index =
                                                    RESERVED_VACCS_PER_FEE_PAYER] :
            skip \in BOOLEAN}
    \cup {[InitData(SomeSubmission, skip) EXCEPT !.timestamp = 0] : skip \in BOOLEAN}
    \cup {[InitData(SomeSubmission, skip) EXCEPT !.nullifier_duplicate_account = {2}] :
            skip \in BOOLEAN}

\* the minimum fee of TransferFeeData is 1 + 1 + 1 - 2 = 1, the fee the statements declare
TransferFeeData ==
    [fee_payer |-> Creator, governor_fee_version |-> 0, min_batching_rate |-> 1,
     commitment_hash_fee |-> 1,
     commitment_hash_fee_token |-> 1, proof_verification_fee |-> 1, network_fee |-> 1,
     subvention |-> 2, accounts_valid |-> TRUE, fee_payer_account_valid |-> TRUE,
     associated_token_account_rent_token |-> 0]

TransferFeeArgs ==
    {TransferFeeData,
     [TransferFeeData EXCEPT !.fee_payer = Stranger],
     [TransferFeeData EXCEPT !.governor_fee_version = 1],
     [TransferFeeData EXCEPT !.subvention = 1],
     [TransferFeeData EXCEPT !.accounts_valid = FALSE]}

ProofArgs == [fee_payer : Payers, proof : {SomeProof}]

ComputeData(outcome) ==
    [vkey_is_frozen |-> TRUE, vkey_id |-> SendQuadraVKey, outcome |-> outcome]

ComputeArgs ==
    {ComputeData(outcome) : outcome \in StepOutcomes}
    \cup {[ComputeData("Ok(None)") EXCEPT !.vkey_is_frozen = FALSE],
          [ComputeData("Ok(None)") EXCEPT !.vkey_id = MigrateUnaryVKey]}

SendData(token_id, mt_index, commitment_index) ==
    [recipient |-> Recipient, identifier |-> Identifier,
     transaction_reference |-> InstructionsAccount,
     uses_memo |-> FALSE, memo_instruction |-> NoInstruction,
     timestamp |-> 32, total_amount |-> 2, token_id |-> token_id, mt_index |-> mt_index,
     commitment_index |-> commitment_index, iv |-> Iv, encrypted_owner |-> EncryptedOwner]

SendArgs ==
    {SendData(t, m, c) : t \in {0, 1}, m \in {0, 1}, c \in {0, 1}}
    \cup {[SendData(0, 0, 0) EXCEPT !.recipient = Stranger],
          [SendData(0, 0, 0) EXCEPT !.identifier = Stranger],
          [SendData(0, 0, 0) EXCEPT !.transaction_reference = Reference],
          [SendData(0, 0, 0) EXCEPT !.iv = Stranger],
          [SendData(0, 0, 0) EXCEPT !.encrypted_owner = Stranger],
          [SendData(0, 0, 0) EXCEPT !.uses_memo = TRUE, !.memo_instruction = Memo],
          [SendData(0, 0, 0) EXCEPT !.uses_memo = TRUE],
          [SendData(0, 0, 0) EXCEPT !.timestamp = 33],
          [SendData(0, 0, 0) EXCEPT !.total_amount = 3]}

\* input_commitment_index: an index of an input, or one behind the last
SendNullifierArgs == [input_commitment_index : 0..2]

TransferData(key) ==
    [original_fee_payer |-> Creator, original_fee_payer_account_valid |-> TRUE,
     recipient |-> Recipient, recipient_wallet |-> Recipient,
     recipient_is_token_account |-> TRUE, associated_token_account_valid |-> TRUE,
     recipient_exists |-> TRUE, mint_valid |-> TRUE,
     nullifier_duplicate_account |-> key, token_accounts_valid |-> TRUE]

TransferLamportsArgs ==
    {TransferData(key) : key \in NdaKeys}
    \cup {[TransferData({1}) EXCEPT !.original_fee_payer = Stranger],
          [TransferData({1}) EXCEPT !.recipient = Stranger]}

TransferTokenArgs ==
    TransferLamportsArgs
    \cup {[TransferData({1}) EXCEPT !.original_fee_payer_account_valid = FALSE],
          [TransferData({1}) EXCEPT !.token_accounts_valid = FALSE]}

----------------------------------------------------------------------------
(* The instructions of the proof-verification state machine *)

\* The ids of the verification accounts are given out in the order of creation
InitVerification(a, args) ==
    /\ CanRun(OtherElusivIx)
    /\ \A b \in VAccs : b < a => acct[b].state # "Absent"
    /\ Execute(init_verification(Program, a, args),
               Executed(OtherElusivIx), FALSE, TRUE)

InitVerificationTransferFee(a, args) ==
    /\ CanRun(OtherElusivIx)
    /\ Execute(init_verification_transfer_fee(Program, a, args),
               Executed(OtherElusivIx), FALSE, TRUE)

InitVerificationProof(a, args) ==
    /\ CanRun(OtherElusivIx)
    /\ Execute(init_verification_proof(Program, a, args),
               Executed(OtherElusivIx), FALSE, TRUE)

ComputeVerification(a, args) ==
    /\ CanRun(OtherElusivIx)
    /\ Execute(compute_verification(Program, a, args),
               Executed(OtherElusivIx), FALSE, TRUE)

FinalizeVerificationSend(a, args) ==
    /\ CanRun(FINALIZE_VERIFICATION_SEND_INDEX)
    /\ LET reads == acct[a].state = "ProofSetup" /\ acct[a].is_verified = Some(TRUE)
       IN  \E ixs \in Views(FINALIZE_VERIFICATION_SEND_INDEX, reads) :
               Execute(finalize_verification_send(Program, a, args, ixs, current_index),
                       ixs, reads, FALSE)

FinalizeVerificationSendNullifier(a, args) ==
    /\ CanRun(FINALIZE_VERIFICATION_SEND_NULLIFIER_INDEX)
    /\ LET reads == acct[a].state = "InsertNullifiers"
       IN  \E ixs \in Views(FINALIZE_VERIFICATION_SEND_NULLIFIER_INDEX, reads) :
               Execute(finalize_verification_send_nullifier(Program, a, args, ixs,
                                                            current_index),
                       ixs, reads, FALSE)

FinalizeVerificationTransferLamports(a, args) ==
    /\ CanRun(FINALIZE_VERIFICATION_TRANSFER_LAMPORTS_INDEX)
    /\ LET reads == acct[a].state = "Finalized" /\ acct[a].is_verified # Some(FALSE)
       IN  \E ixs \in Views(FINALIZE_VERIFICATION_TRANSFER_LAMPORTS_INDEX, reads) :
               Execute(finalize_verification_transfer_lamports(Program, a, args, ixs,
                                                               current_index),
                       ixs, reads, FALSE)

FinalizeVerificationTransferToken(a, args) ==
    /\ CanRun(FINALIZE_VERIFICATION_TRANSFER_TOKEN_INDEX)
    /\ LET reads == acct[a].state = "Finalized" /\ acct[a].is_verified # Some(FALSE)
       IN  \E ixs \in Views(FINALIZE_VERIFICATION_TRANSFER_TOKEN_INDEX, reads) :
               Execute(finalize_verification_transfer_token(Program, a, args, ixs,
                                                            current_index),
                       ixs, reads, FALSE)

\* an instruction of another program: no effect on this program's accounts
ForeignInstruction(succeeds) ==
    /\ CanRun(ForeignIx)
    /\ Execute(Res(IF succeeds THEN OK ELSE "Custom", Program),
               Executed(ForeignIx), FALSE, FALSE)

Init ==
    /\ queue = EmptyQueueOf(0, ZeroRequest)
    /\ fifo = <<>>
    /\ nullifiers = [t \in Trees |-> {}]
    /\ inserted = {}
    /\ acct = [a \in VAccs |-> AbsentAccount]
    /\ nda = {}
    /\ tx = Idle
    /\ snap = NoSnap
    /\ last = NoCall
    /\ balance = NoBalance
    /\ array = NoArray

Next ==
    \/ \E a \in VAccs, args \in InitArgs :
            InitVerification(a, args)
    \/ \E a \in VAccs, args \in TransferFeeArgs :
            InitVerificationTransferFee(a, args)
    \/ \E a \in VAccs, args \in ProofArgs :
            InitVerificationProof(a, args)
    \/ \E a \in VAccs, args \in ComputeArgs :
            ComputeVerification(a, args)
    \/ \E a \in VAccs, args \in SendArgs :
            FinalizeVerificationSend(a, args)
    \/ \E a \in VAccs, args \in SendNullifierArgs :
            FinalizeVerificationSendNullifier(a, args)
    \/ \E a \in VAccs, args \in TransferLamportsArgs :
            FinalizeVerificationTransferLamports(a, args)
    \/ \E a \in VAccs, args \in TransferTokenArgs :
            FinalizeVerificationTransferToken(a, args)
    \/ \E succeeds \in BOOLEAN : ForeignInstruction(succeeds)

Spec == Init /\ [][Next]_vars

----------------------------------------------------------------------------
(* SpecQueue: the operations of RingQueue on one queue that starts empty,   *)
(* with head = tail anywhere in the ring.  fifo is the abstract queue.      *)

QueueOffsets == 0..(SIZE - 1)

Enqueue(value) ==
    LET r == enqueue(queue, value)
    IN  /\ queue' = r.q
        /\ fifo' = IF r.res = OK THEN Append(fifo, value) ELSE fifo
        /\ last' = Call("enqueue", 0, r.res, value)
        /\ UNCHANGED <<nullifiers, inserted, acct, nda, tx, snap, balance, array>>

DequeueFirst ==
    LET r == dequeue_first(queue)
    IN  /\ queue' = r.q
        /\ fifo' = IF r.res = OK THEN Tail(fifo) ELSE fifo
        /\ last' = Call("dequeue_first", 0, r.res, r.val)
        /\ UNCHANGED <<nullifiers, inserted, acct, nda, tx, snap, balance, array>>

ViewFirst ==
    LET r == view_first(queue)
    IN  /\ last' = Call("view_first", 0, r.res, r.val)
        /\ UNCHANGED <<queue, fifo, nullifiers, inserted, acct, nda, tx, snap, balance, array>>

View(offset) ==
    LET r == view(queue, offset)
    IN  /\ last' = Call("view", offset, r.res, r.val)
        /\ UNCHANGED <<queue, fifo, nullifiers, inserted, acct, nda, tx, snap, balance, array>>

ContainsValue(value) ==
    /\ last' = Call("contains", value, OK, IF contains(queue, value) THEN 1 ELSE 0)
    /\ UNCHANGED <<queue, fifo, nullifiers, inserted, acct, nda, tx, snap, balance, array>>

QueueLen ==
    /\ last' = Call("len", 0, OK, len(queue))
    /\ UNCHANGED <<queue, fifo, nullifiers, inserted, acct, nda, tx, snap, balance, array>>

InitQueue ==
    /\ \E h \in 0..(SIZE - 1) : queue = EmptyQueue(h)
    /\ fifo = <<>>
    /\ nullifiers = [t \in Trees |-> {}]
    /\ inserted = {}
    /\ acct = [a \in VAccs |-> AbsentAccount]
    /\ nda = {}
    /\ tx = Idle
    /\ snap = NoSnap
    /\ last = NoCall
    /\ balance = NoBalance
    /\ array = NoArray

NextQueue ==
    \/ \E value \in Values : Enqueue(value)
    \/ DequeueFirst
    \/ ViewFirst
    \/ \E offset \in QueueOffsets : View(offset)
    \/ \E value \in Values : ContainsValue(value)
    \/ QueueLen

SpecQueue == InitQueue /\ [][NextQueue]_vars

\* C8: the ring is the abstract FIFO: its content from head to tail is the sequence
\* of the values enqueued and not yet dequeued, in the order they were enqueued,
\* every successful dequeue_first returns the oldest of them and removes it, and
\* every successful enqueue appends its value; this for any head and tail, also
\* after they wrapped around SIZE.
C8_FifoOrder ==
    [][/\ RingContent(queue') = fifo'
       /\ Len(fifo') <= SIZE - 1
       /\ (last'.op = "dequeue_first" /\ last'.res = OK) =>
              /\ fifo # <<>>
              /\ last'.val = Head(fifo)
              /\ RingContent(queue') = Tail(RingContent(queue))
       /\ (last'.op = "enqueue" /\ last'.res = OK) =>
              RingContent(queue') = Append(RingContent(queue), last'.val)]_vars

\* a dequeue_first returned the older of two different values while the ring was
\* wrapped around (tail before head)
C8_Witness ==
    /\ last.op = "dequeue_first" /\ last.res = OK
    /\ queue.tail < queue.head
    /\ fifo # <<>>
    /\ last.val # Head(fifo)

C10_LenIsCount == len(queue) = Len(fifo)

\* C33: the reads agree with the abstract FIFO: on a non-empty queue view(offset),
\* for every offset smaller than the number of stored elements, is the element the
\* (offset + 1)-th next dequeue_first would return, view_first is view(0), and
\* contains(v) is true iff v is one of the stored elements, never because of a slot
\* already dequeued or never written (0), also when the stored range wraps around
\* the end of the array.
C33_ReadsAgree ==
    /\ \A offset \in 0..(Len(fifo) - 1) :
          view(queue, offset) = [res |-> OK, val |-> fifo[offset + 1]]
    /\ view_first(queue) = view(queue, 0)
    /\ fifo # <<>> => view_first(queue).val = dequeue_first(queue).val
    /\ \A value \in Values \cup {0} :
          contains(queue, value) <=> \E i \in 1..Len(fifo) : fifo[i] = value
    /\ last.op = "view" /\ last.acc < Len(fifo) =>
          last.res = OK /\ last.val = fifo[last.acc + 1]
    /\ last.op = "view_first" /\ fifo # <<>> => last.res = OK /\ last.val = fifo[1]
    /\ last.op = "contains" =>
          (last.val = 1 <=> \E i \in 1..Len(fifo) : fifo[i] = last.acc)

\* contains answered false for a value that a dequeued slot still holds, on a queue
\* of two elements whose stored range wraps around the end of the array
C33_Witness ==
    /\ last.op = "contains" /\ last.val = 0
    /\ \E i \in 0..(SIZE - 1) : queue.data[i] = last.acc
    /\ queue.tail < queue.head
    /\ Len(fifo) >= 2
    /\ view(queue, 1) = [res |-> OK, val |-> fifo[2]]

\* C36: frame of the queue operations: an enqueue on a full queue and a
\* dequeue_first or view on an empty queue change nothing; a successful enqueue
\* changes only tail and the slot at the old tail; a successful dequeue_first
\* changes only head; view, view_first, contains and len change neither head, tail
\* nor any slot.
C36_Frame ==
    [][/\ last'.res # OK => queue' = queue
       /\ last'.op = "enqueue" /\ last'.res = OK
          => /\ queue'.head = queue.head
             /\ queue'.tail # queue.tail
             /\ queue'.data[queue.tail] = last'.val
             /\ \A i \in 0..(SIZE - 1) : i # queue.tail => queue'.data[i] = queue.data[i]
       /\ last'.op = "dequeue_first" /\ last'.res = OK
          => /\ queue'.head # queue.head
             /\ queue'.tail = queue.tail
             /\ queue'.data = queue.data
       /\ last'.op \in {"view", "view_first", "contains", "len"} => queue' = queue]_vars

\* a dequeue_first has succeeded on a queue of two and left the slot it read as it was
C36_Witness ==
    /\ last.op = "dequeue_first"
    /\ last.res = OK
    /\ len(queue) = 1
    /\ last.val # 0
    /\ queue.data[(queue.head + SIZE - 1) % SIZE] = last.val
    /\ queue.head < queue.tail

----------------------------------------------------------------------------
(* SpecNullifier: try_insert_nullifier_hash and can_insert_nullifier_hash   *)
(* on the nullifier accounts of the trees.  inserted is the history of the  *)
(* successful insertions.                                                   *)

TryInsertNullifierHash(t, h) ==
    LET r == try_insert_nullifier_hash(nullifiers[t], h)
    IN  /\ nullifiers' = [nullifiers EXCEPT ![t] = r.set]
        /\ inserted' = IF r.res = OK THEN inserted \cup {<<t, h>>} ELSE inserted
        /\ last' = Call("try_insert_nullifier_hash", <<t, h>>, r.res, 0)
        /\ UNCHANGED <<queue, fifo, acct, nda, tx, snap, balance, array>>

CanInsertNullifierHash(t, h) ==
    /\ last' = Call("can_insert_nullifier_hash", <<t, h>>, OK,
                    IF can_insert_nullifier_hash(nullifiers[t], h) THEN 1 ELSE 0)
    /\ UNCHANGED <<queue, fifo, nullifiers, inserted, acct, nda, tx, snap, balance, array>>

InitNullifier ==
    /\ queue = EmptyQueue(0)
    /\ fifo = <<>>
    /\ nullifiers = [t \in Trees |-> {}]
    /\ inserted = {}
    /\ acct = [a \in VAccs |-> AbsentAccount]
    /\ nda = {}
    /\ tx = Idle
    /\ snap = NoSnap
    /\ last = NoCall
    /\ balance = NoBalance
    /\ array = NoArray

NextNullifier ==
    \/ \E t \in Trees, h \in Hashes : TryInsertNullifierHash(t, h)
    \/ \E t \in Trees, h \in Hashes : CanInsertNullifierHash(t, h)

SpecNullifier == InitNullifier /\ [][NextNullifier]_vars

\* C7: for every tree and hash, try_insert_nullifier_hash succeeds when the hash has
\* not been inserted into that tree before and fails with CouldNotInsertNullifier
\* from then on; can_insert_nullifier_hash is true exactly for the hashes not yet
\* inserted; and no step removes an inserted hash.
C7_InsertOnce ==
    [][/\ \A t \in Trees, h \in Hashes :
             can_insert_nullifier_hash(nullifiers'[t], h) <=> <<t, h>> \notin inserted'
       /\ \A th \in inserted : th[2] \in nullifiers'[th[1]]
       /\ last'.op = "try_insert_nullifier_hash" =>
             last'.res = IF last'.acc \in inserted THEN "CouldNotInsertNullifier" ELSE OK
       /\ last'.op = "can_insert_nullifier_hash" =>
             (last'.val = 1 <=> last'.acc \notin inserted)]_vars

\* a second try_insert_nullifier_hash of a hash was refused, the hash still recorded
C7_Witness ==
    /\ last.op = "try_insert_nullifier_hash"
    /\ last.res = "CouldNotInsertNullifier"
    /\ last.acc \in inserted
    /\ last.acc[2] \in nullifiers[last.acc[1]]

----------------------------------------------------------------------------
(* Properties of the proof-verification state machine (Spec) *)

\* the step discards a failed transaction
RolledBack ==
    /\ tx.pc > 1
    /\ tx' = Idle
    /\ acct' = snap.acct /\ nullifiers' = snap.nullifiers
    /\ nda' = snap.nda /\ queue' = snap.queue

\* the instruction lists a finalize instruction on account a may find in the sysvar
SendViews(a) ==
    Views(FINALIZE_VERIFICATION_SEND_INDEX,
          acct[a].state = "ProofSetup" /\ acct[a].is_verified = Some(TRUE))
SendNullifierViews(a) ==
    Views(FINALIZE_VERIFICATION_SEND_NULLIFIER_INDEX, acct[a].state = "InsertNullifiers")
TransferLamportsViews(a) ==
    Views(FINALIZE_VERIFICATION_TRANSFER_LAMPORTS_INDEX,
          acct[a].state = "Finalized" /\ acct[a].is_verified # Some(FALSE))
TransferTokenViews(a) ==
    Views(FINALIZE_VERIFICATION_TRANSFER_TOKEN_INDEX,
          acct[a].state = "Finalized" /\ acct[a].is_verified # Some(FALSE))

\* a call that returned r succeeded only in the given state of account a, and after
\* an error the state of a is as before
OnlyIn(r, a, state) ==
    /\ r.res = OK => acct[a].state = state
    /\ r.res # OK => r.p.acct[a].state = acct[a].state

\* C1: in every reachable state and for all arguments, a call of
\* init_verification_transfer_fee succeeds only on an account in None,
\* init_verification_proof only in FeeTransferred, finalize_verification_send only in
\* ProofSetup, finalize_verification_send_nullifier only in InsertNullifiers,
\* finalize_verification_transfer_lamports only in Finalized with token_id = 0 and
\* finalize_verification_transfer_token only in Finalized with token_id > 0; a call
\* that returns an error leaves the state of the account as it was; an account that
\* init_verification_proof moved to ProofSetup rejects every further
\* init_verification_proof.
C1_HandlerPreconditions ==
    \A a \in VAccs :
        /\ \A args \in TransferFeeArgs :
              OnlyIn(init_verification_transfer_fee(Program, a, args), a, "None")
        /\ \A args \in ProofArgs :
              /\ OnlyIn(init_verification_proof(Program, a, args), a, "FeeTransferred")
              /\ Rank(acct[a].state) >= Rank("ProofSetup") =>
                    init_verification_proof(Program, a, args).res # OK
        /\ \A args \in SendArgs, ixs \in SendViews(a) :
              OnlyIn(finalize_verification_send(Program, a, args, ixs, current_index),
                     a, "ProofSetup")
        /\ \A args \in SendNullifierArgs, ixs \in SendNullifierViews(a) :
              OnlyIn(finalize_verification_send_nullifier(Program, a, args, ixs,
                                                          current_index),
                     a, "InsertNullifiers")
        /\ \A args \in TransferLamportsArgs, ixs \in TransferLamportsViews(a) :
              LET r == finalize_verification_transfer_lamports(Program, a, args, ixs,
                                                               current_index)
              IN  /\ OnlyIn(r, a, "Finalized")
                  /\ r.res = OK => acct[a].request.token_id = 0
        /\ \A args \in TransferTokenArgs, ixs \in TransferTokenViews(a) :
              LET r == finalize_verification_transfer_token(Program, a, args, ixs,
                                                            current_index)
              IN  /\ OnlyIn(r, a, "Finalized")
                  /\ r.res = OK => acct[a].request.token_id > 0

\* an account is in ProofSetup, where init_verification_proof put it, and a second
\* init_verification_proof by its fee payer fails with InvalidAccountState
C1_Witness ==
    \E a \in VAccs :
        /\ acct[a].state = "ProofSetup"
        /\ acct[a].is_verified = ONone
        /\ init_verification_proof(Program, a, [fee_payer |-> Creator, proof |-> SomeProof]).res
                = "InvalidAccountState"

\* the order of the states and its one shortcut
Successor(va, state) ==
    \/ Rank(state) = Rank(va.state) + 1
    \/ va.state = "ProofSetup" /\ state = "Finalized" /\ va.is_verified = Some(FALSE)

\* C2: in every step that is not the discarding of a failed transaction, the state
\* of every verification account stays or moves to its immediate successor in
\* None < FeeTransferred < ProofSetup < InsertNullifiers < Finalized < Closed; the only
\* other move is from ProofSetup to Finalized, taken only with verdict false, and
\* InsertNullifiers is entered only with verdict true; an account in Closed does not
\* change any more.
C2_StateOrder ==
    [][~RolledBack =>
          \A a \in VAccs :
              /\ acct'[a].state # acct[a].state => Successor(acct[a], acct'[a].state)
              /\ (acct[a].state = "ProofSetup" /\ acct'[a].state = "InsertNullifiers")
                    => acct[a].is_verified = Some(TRUE)
              /\ acct[a].state = "Closed" => acct'[a] = acct[a]]_vars

\* one account went all the way to Closed with verdict true while another took the
\* shortcut from ProofSetup to Finalized with verdict false
C2_Witness ==
    \E a, b \in VAccs :
        /\ acct[a].state = "Closed" /\ acct[a].is_verified = Some(TRUE)
        /\ acct[b].state = "Finalized" /\ acct[b].is_verified = Some(FALSE)

\* a recorded verdict stays, and a verdict is recorded only in None or ProofSetup, the
\* states of compute_verification, in a step that changes nothing else of the account
VerdictWriteOnce ==
    ~RolledBack =>
        \A a \in VAccs :
            /\ acct[a].is_verified # ONone => acct'[a].is_verified = acct[a].is_verified
            /\ acct'[a].is_verified # acct[a].is_verified =>
                  /\ acct[a].state \in {"None", "ProofSetup"}
                  /\ acct'[a] = [acct[a] EXCEPT !.is_verified = acct'[a].is_verified]

\* every compute_verification on an account with a verdict fails with
\* ComputationIsAlreadyFinished
LateComputeAlreadyFinished ==
    \A a \in VAccs, args \in ComputeArgs :
        acct[a].is_verified # ONone =>
            compute_verification(Program, a, args).res = "ComputationIsAlreadyFinished"

\* every compute_verification on an account with a verdict fails: with InvalidAccount
\* when the vkey account is not frozen or vkey_id is not the account's, and with
\* ComputationIsAlreadyFinished otherwise
LateComputeFails ==
    \A a \in VAccs, args \in ComputeArgs :
        acct[a].is_verified # ONone =>
            compute_verification(Program, a, args).res =
                IF args.vkey_is_frozen /\ args.vkey_id = acct[a].vkey_id
                THEN "ComputationIsAlreadyFinished"
                ELSE "InvalidAccount"

\* C3 as stated: the verdict is write-once and every compute_verification call made
\* after a verdict is recorded fails with ComputationIsAlreadyFinished (the calls
\* are looked at in every state a step changes the accounts to; there is no
\* verdict in the initial state).
C3_AsStated ==
    [][VerdictWriteOnce /\ (acct' # acct => LateComputeAlreadyFinished')]_vars

\* C3 amended: the verdict starts absent, is recorded at most once and never changes
\* afterwards; every compute_verification call made after a verdict is recorded
\* fails, with ComputationIsAlreadyFinished when the vkey account is frozen and
\* vkey_id matches the account, and with InvalidAccount otherwise (the calls are
\* looked at in every state a step changes the accounts to; there is no verdict in
\* the initial state).
C3_VerdictWriteOnce ==
    [][VerdictWriteOnce /\ (acct' # acct => LateComputeFails')]_vars

\* an account has verdict true; the next step of the computation is refused with
\* ComputationIsAlreadyFinished, and with InvalidAccount when the vkey account is
\* not frozen
C3_Witness ==
    \E a \in VAccs :
        /\ acct[a].is_verified = Some(TRUE)
        /\ acct[a].state = "ProofSetup"
        /\ compute_verification(Program, a, ComputeData("Ok(Some(false))")).res
                = "ComputationIsAlreadyFinished"
        /\ compute_verification(Program, a,
                                [ComputeData("Ok(None)") EXCEPT !.vkey_is_frozen = FALSE]).res
                = "InvalidAccount"

\* the <<tree, nullifier hash>> pairs the statement of an account spends
Spends(va) ==
    {<<tree_of_input(va.request.input_commitments, va.tree_indices, i),
       va.request.input_commitments[i].nullifier_hash>> :
        i \in 1..Len(va.request.input_commitments)}

\* the account completed a terminal transfer with verdict true
PaidOut(va) == va.state = "Closed" /\ va.is_verified = Some(TRUE)

C5_NullifiersInserted ==
    \A a \in VAccs :
        (acct[a].is_verified = Some(TRUE) /\ acct[a].state \in {"Finalized", "Closed"}) =>
            \A th \in Spends(acct[a]) : th[2] \in nullifiers[th[1]]

\* a statement of two inputs reached Finalized with verdict true, both nullifier
\* hashes inserted, inside its finalize transaction
C5_Witness ==
    \E a \in VAccs :
        /\ acct[a].is_verified = Some(TRUE)
        /\ acct[a].state = "Finalized"
        /\ Len(acct[a].request.input_commitments) = 2
        /\ \A th \in Spends(acct[a]) : th[2] \in nullifiers[th[1]]
        /\ tx.fixed /\ tx.pc = 4

\* the account exists and is not closed
Active(va) == va.state \notin {"Absent", "Closed"}

\* C6: no two active verification accounts created with skip_nullifier_pda = false
\* have statements with the same nullifier-hash set; while such an account is
\* active its NullifierDuplicateAccount exists, and while that account exists every
\* init_verification with skip_nullifier_pda = false for the same nullifier set
\* fails.
C6_OneVerificationPerNullifierSet ==
    /\ \A a, b \in VAccs :
          (/\ a # b
           /\ Active(acct[a]) /\ Active(acct[b])
           /\ ~acct[a].skip_nullifier_pda /\ ~acct[b].skip_nullifier_pda) =>
              associated_nullifier_duplicate_pda_pubkey(acct[a].request)
                  # associated_nullifier_duplicate_pda_pubkey(acct[b].request)
    /\ \A a \in VAccs :
          (Active(acct[a]) /\ ~acct[a].skip_nullifier_pda) =>
              associated_nullifier_duplicate_pda_pubkey(acct[a].request) \in nda
    /\ \A a \in VAccs, args \in InitArgs :
          (/\ ~args.skip_nullifier_pda
           /\ associated_nullifier_duplicate_pda_pubkey(args.request) \in nda) =>
              init_verification(Program, a, args).res # OK

\* the terminal transfer of a rejected verification destroyed its
\* NullifierDuplicateAccount, and init_verification succeeded again for the same
\* nullifier set without skip_nullifier_pda
C6_Witness ==
    \E a, b \in VAccs :
        /\ acct[a].state = "Closed" /\ ~acct[a].skip_nullifier_pda
        /\ Active(acct[b]) /\ ~acct[b].skip_nullifier_pda
        /\ associated_nullifier_duplicate_pda_pubkey(acct[a].request)
              = associated_nullifier_duplicate_pda_pubkey(acct[b].request)

----------------------------------------------------------------------------
(* SpecFee: init_verification_transfer_fee on accounts in None, for the      *)
(* declared fees, fee schedules and accounts below.  Each call is a          *)
(* transaction of its own; the handler reads and writes the one account it   *)
(* is given, so the calls are followed up to the first that succeeds.        *)

\* the statements init_verification stored: any declared fee, both assets
FeeRequests ==
    {[SendRequest(<<In(ValidRoot, 1)>>, token_id, Commitment)
        EXCEPT !.fee = fee, !.recipient_is_associated_token_account = is_ata] :
        token_id \in {0, 1}, fee \in 0..3, is_ata \in BOOLEAN}

\* every fee schedule with the other arguments right, and each other argument wrong
FeeData(chf, pvf, nf, subvention) ==
    [TransferFeeData EXCEPT !.commitment_hash_fee = chf,
                            !.commitment_hash_fee_token = chf,
                            !.proof_verification_fee = pvf,
                            !.network_fee = nf,
                            !.subvention = subvention]

FeeArgs ==
    {FeeData(chf, pvf, nf, subvention) :
        chf \in 0..2, pvf \in 0..2, nf \in 0..2, subvention \in 0..3}
    \cup {[TransferFeeData EXCEPT !.fee_payer = Stranger],
          [TransferFeeData EXCEPT !.governor_fee_version = 1],
          [TransferFeeData EXCEPT !.accounts_valid = FALSE],
          [TransferFeeData EXCEPT !.associated_token_account_rent_token = 2]}

TransferFee(a, args) ==
    LET r == init_verification_transfer_fee(Program, a, args)
    IN  /\ \A b \in VAccs : acct[b].state = "None"
        /\ acct' = IF r.res = OK THEN r.p.acct ELSE acct
        /\ last' = Call("init_verification_transfer_fee", a, r.res, args)
        /\ UNCHANGED <<queue, fifo, nullifiers, inserted, nda, tx, snap, balance, array>>

InitFee ==
    /\ queue = EmptyQueue(0)
    /\ fifo = <<>>
    /\ nullifiers = [t \in Trees |-> {}]
    /\ inserted = {}
    /\ \E request \in FeeRequests :
          acct = [a \in VAccs |-> setup(Creator, FALSE, SendQuadraVKey, request, <<0, 1>>)]
    /\ nda = {}
    /\ tx = Idle
    /\ snap = NoSnap
    /\ last = NoCall
    /\ balance = NoBalance
    /\ array = NoArray

NextFee == \E a \in VAccs, args \in FeeArgs : TransferFee(a, args)

SpecFee == InitFee /\ [][NextFee]_vars

\* every guard of init_verification_transfer_fee but the fee guard lets the call
\* with these arguments pass on this account, and the minimum fee could be computed
OtherFeeGuardsPass(va, args) ==
    /\ va.state = "None"
    /\ va.fee_payer = args.fee_payer
    /\ va.request.fee_version = args.governor_fee_version
    /\ minimum_fee(args).res = OK
    /\ args.accounts_valid
    /\ args.fee_payer_account_valid
    /\ ~(va.request.recipient_is_associated_token_account /\ va.request.token_id = 0)
    /\ va.request.recipient_is_associated_token_account =>
            va.request.amount >= args.associated_token_account_rent_token

\* C11: a call of init_verification_transfer_fee that passes every other guard, the
\* minimum fee being commitment_hash_fee + proof_verification_fee + network_fee
\* - subvention, succeeds and moves the account to FeeTransferred exactly when the
\* declared fee is at least the minimum (equal or above), and fails with
\* InvalidPublicInputs, the account left in None, when it is below, in particular
\* when it is the minimum minus 1.
C11_FeeFloor ==
    [][last'.op = "init_verification_transfer_fee" =>
          LET a == last'.acc
              args == last'.val
              min == args.commitment_hash_fee_token + args.proof_verification_fee
                     + args.network_fee - args.subvention
          IN  OtherFeeGuardsPass(acct[a], args) =>
                  /\ last'.res = OK <=> acct[a].request.fee >= min
                  /\ last'.res = OK => acct'[a].state = "FeeTransferred"
                  /\ acct[a].request.fee < min =>
                        /\ last'.res = "InvalidPublicInputs"
                        /\ acct'[a] = acct[a]
                  /\ acct[a].request.fee = min - 1 => last'.res # OK]_vars

\* a call with a declared fee equal to a minimum reduced by a subvention succeeded
C11_Witness ==
    /\ last.op = "init_verification_transfer_fee"
    /\ last.res = OK
    /\ last.val.subvention > 0
    /\ minimum_fee(last.val).res = OK
    /\ acct[last.acc].request.fee = minimum_fee(last.val).amount
    /\ acct[last.acc].request.fee > 0
    /\ acct[last.acc].state = "FeeTransferred"

----------------------------------------------------------------------------
(* Properties of finalize_verification_send (Spec) *)

\* the memo instruction was found where one is used, and the hash over the supplied
\* recipient, identifier, iv, encrypted_owner, reference (zero without one), the
\* statement's is-associated-token-account flag and the memo is hashed_inputs
HashedInputsMatch(va, args) ==
    LET memo == get_memo_from_instructions(args.uses_memo, args.memo_instruction)
    IN  /\ memo.res = OK
        /\ generate_hashed_inputs(args.recipient, args.identifier, args.iv,
                                  args.encrypted_owner,
                                  IF args.transaction_reference # InstructionsAccount
                                  THEN args.transaction_reference
                                  ELSE NoReference,
                                  va.request.recipient_is_associated_token_account,
                                  memo.memo) = va.request.hashed_inputs

\* C12: in every reachable state an account in InsertNullifiers, Finalized or Closed
\* has its verdict recorded; every finalize_verification_send on an account without
\* a verdict fails and leaves the state of the account, and on an account in
\* ProofSetup, called with the inputs that hash to hashed_inputs, it fails with
\* ComputationIsNotYetFinished.
C12_VerdictBeforeFinalization ==
    \A a \in VAccs :
        /\ acct[a].state \in {"InsertNullifiers", "Finalized", "Closed"} =>
                acct[a].is_verified # ONone
        /\ acct[a].is_verified = ONone =>
                \A args \in SendArgs, ixs \in SendViews(a) :
                    LET r == finalize_verification_send(Program, a, args, ixs, current_index)
                    IN  /\ r.res # OK
                        /\ r.p.acct[a].state = acct[a].state
                        /\ (acct[a].state = "ProofSetup" /\ HashedInputsMatch(acct[a], args))
                              => r.res = "ComputationIsNotYetFinished"

\* an account waits in ProofSetup without a verdict and finalize_verification_send
\* with the right inputs is refused with ComputationIsNotYetFinished
C12_Witness ==
    \E a \in VAccs :
        /\ acct[a].state = "ProofSetup"
        /\ acct[a].is_verified = ONone
        /\ \E ixs \in SendViews(a) :
              finalize_verification_send(Program, a, SendData(0, 0, 0), ixs, current_index).res
                  = "ComputationIsNotYetFinished"

\* C13: a finalize_verification_send succeeds only if the hash recomputed over the
\* supplied recipient, identifier, iv, encrypted_owner, reference (zero when none is
\* used), the is-associated-token-account flag and the memo equals hashed_inputs; on
\* an account in ProofSetup a call with another recipient, identifier, reference, iv,
\* encrypted_owner or memo fails with InputsMismatch and leaves the state ProofSetup,
\* whatever the verdict is.
C13_HashedInputsBind ==
    \A a \in VAccs, args \in SendArgs : \A ixs \in SendViews(a) :
        LET r == finalize_verification_send(Program, a, args, ixs, current_index)
            memo == get_memo_from_instructions(args.uses_memo, args.memo_instruction)
        IN  /\ r.res = OK => HashedInputsMatch(acct[a], args)
            /\ (/\ acct[a].state = "ProofSetup"
                /\ memo.res = OK
                /\ ~HashedInputsMatch(acct[a], args)) =>
                    /\ r.res = "InputsMismatch"
                    /\ r.p.acct[a].state = "ProofSetup"

\* one account in ProofSetup has verdict true and another verdict false, and on both
\* finalize_verification_send with another recipient fails with InputsMismatch
C13_Witness ==
    \E a, b \in VAccs :
        /\ acct[a].state = "ProofSetup" /\ acct[a].is_verified = Some(TRUE)
        /\ acct[b].state = "ProofSetup" /\ acct[b].is_verified = Some(FALSE)
        /\ \A c \in {a, b} : \A ixs \in SendViews(c) :
              finalize_verification_send(Program, c,
                                         [SendData(0, 0, 0) EXCEPT !.recipient = Stranger],
                                         ixs, current_index).res = "InputsMismatch"

\* the supplied insertion position, timestamp, total_amount or token_id is not
\* consistent with the minimum position and the statement
SendDataInconsistent(va, args) ==
    LET min == minimum_commitment_mt_index(storage.trees_count,
                                           storage.next_commitment_ptr, len(queue))
    IN  \/ args.timestamp # va.request.current_time
        \/ args.total_amount # va.request.total_amount
        \/ args.token_id # va.request.token_id
        \/ args.commitment_index > min[1]
        \/ args.mt_index # min[2]

\* C14: on an account in ProofSetup with a verdict, true or false, a
\* finalize_verification_send that passes the guards before them (hashed_inputs, and
\* with verdict true the sibling instructions) and whose mt_index is not the computed
\* tree index, whose commitment_index exceeds the computed commitment index or whose
\* timestamp, total_amount or token_id is not the statement's fails with
\* InputsMismatch.
C14_PositionChecked ==
    \A a \in VAccs, args \in SendArgs : \A ixs \in SendViews(a) :
        (/\ acct[a].state = "ProofSetup"
         /\ acct[a].is_verified # ONone
         /\ HashedInputsMatch(acct[a], args)
         /\ acct[a].is_verified = Some(TRUE) =>
                enforce_finalize_send_instructions(
                    ixs, current_index, 0, Len(acct[a].request.input_commitments),
                    acct[a].request.token_id = 0) = OK
         /\ SendDataInconsistent(acct[a], args)) =>
            finalize_verification_send(Program, a, args, ixs, current_index).res
                = "InputsMismatch"

----------------------------------------------------------------------------
(* SpecSiblings: enforce_finalize_send_instructions called by the instruction *)
(* at any position of any transaction of up to MaxTxLen instructions.         *)

\* the sibling positions and the numbers of input commitments
SiblingArgs ==
    [finalize_instruction_index : 0..MaxTxLen,
     number_of_input_commitments : 0..(MaxTxLen - 2),
     uses_lamports : BOOLEAN]

EnforceFinalizeSendInstructions(args) ==
    /\ last' = Call("enforce_finalize_send_instructions", args,
                    enforce_finalize_send_instructions(
                        tx.ixs, current_index, args.finalize_instruction_index,
                        args.number_of_input_commitments, args.uses_lamports),
                    0)
    /\ UNCHANGED <<queue, fifo, nullifiers, inserted, acct, nda, tx, snap, balance, array>>

InitSiblings ==
    /\ queue = EmptyQueue(0)
    /\ fifo = <<>>
    /\ nullifiers = [t \in Trees |-> {}]
    /\ inserted = {}
    /\ acct = [a \in VAccs |-> AbsentAccount]
    /\ nda = {}
    /\ \E ixs \in Extensions(MaxTxLen) \ {<<>>} : \E pc \in 1..Len(ixs) :
          tx = [ixs |-> ixs, pc |-> pc, fixed |-> TRUE]
    /\ snap = NoSnap
    /\ last = NoCall
    /\ balance = NoBalance
    /\ array = NoArray

NextSiblings == \E args \in SiblingArgs : EnforceFinalizeSendInstructions(args)

SpecSiblings == InitSiblings /\ [][NextSiblings]_vars

\* the instruction the sequence of a statement of n inputs has at sibling position j
ExpectedSibling(j, n, uses_lamports) ==
    IF j = 0 THEN FINALIZE_VERIFICATION_SEND_INDEX
    ELSE IF j <= n THEN FINALIZE_VERIFICATION_SEND_NULLIFIER_INDEX
    ELSE IF uses_lamports THEN FINALIZE_VERIFICATION_TRANSFER_LAMPORTS_INDEX
    ELSE FINALIZE_VERIFICATION_TRANSFER_TOKEN_INDEX

\* the instructions at the positions current - k .. current - k + n + 1 (from 0) of
\* the transaction exist and are the sequence of the statement
WindowMatches(ixs, current, k, n, uses_lamports) ==
    /\ k <= n + 1
    /\ current - k >= 0
    /\ current - k + n + 1 < Len(ixs)
    /\ \A j \in 0..(n + 1) : ixs[current - k + j + 1] = ExpectedSibling(j, n, uses_lamports)

\* C15: for the instruction at any position of any transaction, a sibling position k
\* and a statement of n inputs, enforce_finalize_send_instructions succeeds exactly
\* when the instructions at the positions current - k up to current - k + n + 1 are
\* instructions of this program and are, in order, finalize_verification_send, n
\* times finalize_verification_send_nullifier and the transfer instruction of the
\* asset; otherwise (an instruction of the sequence missing, another number of
\* nullifier instructions, a foreign instruction in the window, k outside the
\* sequence) it fails.
C15_SiblingSequence ==
    [][last'.op = "enforce_finalize_send_instructions" =>
          (last'.res = OK <=>
              WindowMatches(tx.ixs, current_index, last'.acc.finalize_instruction_index,
                            last'.acc.number_of_input_commitments,
                            last'.acc.uses_lamports))]_vars

\* the check succeeded for the second nullifier instruction of a statement of two
\* inputs in a transaction of four instructions
C15_Witness ==
    /\ last.op = "enforce_finalize_send_instructions"
    /\ last.res = OK
    /\ last.acc.finalize_instruction_index = 2
    /\ last.acc.number_of_input_commitments = 2
    /\ Len(tx.ixs) = 4 /\ tx.pc = 3

----------------------------------------------------------------------------
(* Properties of finalize_verification_send_nullifier (Spec) *)

\* C16: for every account in InsertNullifiers (its statement was accepted by
\* init_verification) and every input index i of the statement, a
\* finalize_verification_send_nullifier for i that is at its place among the sibling
\* instructions, the nullifier hash of input i being absent from the nullifier set
\* of the tree input i references, succeeds, and it leaves the hash in that set; this
\* includes the statements whose inputs reference two Merkle trees.
C16_NullifierOfEveryInput ==
    \A a \in VAccs :
        acct[a].state = "InsertNullifiers" =>
            \A i \in 1..Len(acct[a].request.input_commitments) :
                \A ixs \in SendNullifierViews(a) :
                    LET ics == acct[a].request.input_commitments
                        t == tree_of_input(ics, acct[a].tree_indices, i)
                        r == finalize_verification_send_nullifier(
                                 Program, a, [input_commitment_index |-> i - 1], ixs,
                                 current_index)
                    IN  (/\ enforce_finalize_send_instructions(
                                ixs, current_index, i, Len(ics),
                                acct[a].request.token_id = 0) = OK
                         /\ ics[i].nullifier_hash \notin nullifiers[t]) =>
                            /\ r.res = OK
                            /\ ics[i].nullifier_hash \in r.p.nullifiers[t]

----------------------------------------------------------------------------
(* Properties of compute_verification (Spec) *)

\* the guards of compute_verification let a call with these arguments pass
ComputeGuardsPass(va, args) ==
    /\ args.vkey_is_frozen
    /\ args.vkey_id = va.vkey_id
    /\ va.is_verified = ONone
    /\ va.state \in {"None", "ProofSetup"}

\* C17: a compute_verification that passes its guards translates the outcome of the
\* step: an error other than InvalidAccountState records verdict false and returns
\* Ok; InvalidAccountState is returned and the verdict stays absent; a final boolean
\* is recorded as the verdict, exactly that boolean, with Ok; no result leaves the
\* verdict absent and returns Ok.  Nothing else of the account changes.
C17_StepOutcomeTranslation ==
    \A a \in VAccs, args \in ComputeArgs :
        ComputeGuardsPass(acct[a], args) =>
            LET r == compute_verification(Program, a, args)
                recorded(b) == [Program EXCEPT !.acct[a].is_verified = Some(b)]
            IN  /\ args.outcome = "Err(other)" => r = Res(OK, recorded(FALSE))
                /\ args.outcome = "Err(InvalidAccountState)" =>
                        r = Res("InvalidAccountState", Program)
                /\ args.outcome = "Ok(Some(true))" => r = Res(OK, recorded(TRUE))
                /\ args.outcome = "Ok(Some(false))" => r = Res(OK, recorded(FALSE))
                /\ args.outcome = "Ok(None)" => r = Res(OK, Program)

\* a computation ended with verdict false on one account while on another, in
\* ProofSetup without a verdict, the next step is still to run
C17_Witness ==
    \E a, b \in VAccs :
        /\ acct[a].state = "ProofSetup" /\ acct[a].is_verified = Some(FALSE)
        /\ acct[b].state = "ProofSetup" /\ acct[b].is_verified = ONone
        /\ compute_verification(Program, b, ComputeData("Err(other)")).p.acct[b].is_verified
                = Some(FALSE)
        /\ compute_verification(Program, b, ComputeData("Err(InvalidAccountState)")).res
                = "InvalidAccountState"

\* C18: a compute_verification succeeds only with the vkey account frozen, vkey_id
\* the account's, no verdict recorded and the account in None or ProofSetup; on an
\* account in FeeTransferred, InsertNullifiers, Finalized or Closed every call fails.
C18_ComputePreconditions ==
    \A a \in VAccs, args \in ComputeArgs :
        LET r == compute_verification(Program, a, args)
        IN  /\ r.res = OK => ComputeGuardsPass(acct[a], args)
            /\ acct[a].state \in {"FeeTransferred", "InsertNullifiers", "Finalized", "Closed"}
                    => (r.res # OK /\ r.p = Program)

\* the fee of an account is paid, its proof not yet submitted and no verdict
\* recorded, and compute_verification is refused with InvalidAccountState
C18_Witness ==
    \E a \in VAccs :
        /\ acct[a].state = "FeeTransferred"
        /\ acct[a].is_verified = ONone
        /\ \A outcome \in StepOutcomes :
              compute_verification(Program, a, ComputeData(outcome)).res
                  = "InvalidAccountState"

----------------------------------------------------------------------------
(* Properties of the fee payer's guards (Spec) *)

\* a call by another fee payer than the recorded one returned r: it failed, the
\* state of the account is as before, and the error is InvalidAccount when the
\* guards that precede the comparison of the fee payer pass
RejectsOtherPayer(r, a, fee_payer, preceding_pass) ==
    fee_payer # acct[a].fee_payer
        => /\ r.res # OK
           /\ r.p.acct[a].state = acct[a].state
           /\ preceding_pass => r.res = "InvalidAccount"

\* C19: in every reachable state and for every existing verification account,
\* init_verification_transfer_fee, init_verification_proof,
\* finalize_verification_transfer_lamports and finalize_verification_transfer_token
\* called with a fee payer other than the one recorded at creation fail and leave
\* the state of the account as it was, with InvalidAccount whenever the guards
\* checked before the fee payer pass; so a call that succeeds carries the
\* recorded fee payer.
C19_OnlyCreator ==
    \A a \in VAccs :
        acct[a].state # "Absent"
            => /\ \A args \in TransferFeeArgs :
                    RejectsOtherPayer(init_verification_transfer_fee(Program, a, args),
                                      a, args.fee_payer, acct[a].state = "None")
               /\ \A args \in ProofArgs :
                    RejectsOtherPayer(init_verification_proof(Program, a, args),
                                      a, args.fee_payer,
                                      /\ acct[a].state = "FeeTransferred"
                                      /\ acct[a].is_verified = ONone)
               /\ \A args \in TransferLamportsArgs :
                    \A ixs \in TransferLamportsViews(a) :
                        RejectsOtherPayer(
                            finalize_verification_transfer_lamports(Program, a, args, ixs,
                                                                    current_index),
                            a, args.original_fee_payer,
                            /\ acct[a].request.token_id = 0
                            /\ acct[a].state = "Finalized")
               /\ \A args \in TransferTokenArgs :
                    \A ixs \in TransferTokenViews(a) :
                        RejectsOtherPayer(
                            finalize_verification_transfer_token(Program, a, args, ixs,
                                                                 current_index),
                            a, args.original_fee_payer,
                            /\ acct[a].recipient_wallet # ONone
                            /\ acct[a].request.token_id > 0
                            /\ acct[a].state = "Finalized")

\* a state where a stranger is turned away from all four: one account awaits its
\* proof, another its terminal transfer
C19_Witness ==
    \E a, b \in VAccs :
        /\ acct[a].state = "FeeTransferred" /\ acct[a].is_verified = ONone
        /\ init_verification_proof(Program, a, [fee_payer |-> Stranger, proof |-> SomeProof]).res
               = "InvalidAccount"
        /\ acct[b].state = "Finalized" /\ acct[b].request.token_id = 0
        /\ \E args \in TransferLamportsArgs :
               \E ixs \in TransferLamportsViews(b) :
                   /\ args.original_fee_payer = Stranger
                   /\ finalize_verification_transfer_lamports(Program, b, args, ixs,
                                                              current_index).res
                          = "InvalidAccount"

----------------------------------------------------------------------------
(* Properties of the path of a rejected proof (Spec) *)

\* the payments made, as a set
Paid(r) == {r.p.transfers[i] : i \in 1..Len(r.p.transfers)}

\* the terminal transfer of a rejected proof returned r on account a: it succeeded
\* and closed the verification, the rent of the closed accounts and every other
\* payment went to the fee collector, the duplicate guard is released unless it
\* was skipped, no nullifier is inserted and no commitment enqueued
RejectedClosed(r, a, nullifier_duplicate_account) ==
    /\ r.res = OK
    /\ r.p.acct[a].state = "Closed"
    /\ \A t \in Paid(r) : t.to = FeeCollector
    /\ Pay(VerificationAccountInfo, FeeCollector, Lamports(PdaRent)) \in Paid(r)
    /\ r.p.acct[a].lamports = 0
    /\ Pay(NullifierDuplicateAccountInfo, FeeCollector, Lamports(PdaRent)) \in Paid(r)
           <=> ~acct[a].skip_nullifier_pda
    /\ r.p.nda = IF acct[a].skip_nullifier_pda THEN nda
                 ELSE nda \ {nullifier_duplicate_account}
    /\ r.p.nullifiers = nullifiers
    /\ r.p.queue = queue

\* C20: in every reachable state an account whose verdict is false is never in
\* InsertNullifiers.  In ProofSetup, finalize_verification_send with the
\* inputs that hash to hashed_inputs succeeds whatever instructions the
\* transaction holds, also when it is the only one, moves the account to
\* Finalized, inserts no nullifier and enqueues nothing.  In Finalized, the terminal
\* transfer of the asset, called by the recorded fee payer with the right accounts,
\* succeeds without any sibling instruction, moves the account to Closed, sends
\* the rent of the verification account, and of the duplicate-guard account
\* unless it was skipped, to the fee collector, pays nothing to the recipient or
\* the fee payer, inserts no nullifier and enqueues no CommitmentHashRequest.
C20_RejectedProofPath ==
    \A a \in VAccs :
        acct[a].is_verified = Some(FALSE)
            => /\ acct[a].state # "InsertNullifiers"
               /\ acct[a].state = "ProofSetup"
                      => \A args \in SendArgs :
                           \A ixs \in SendViews(a)
                                       \cup {<<FINALIZE_VERIFICATION_SEND_INDEX>>} :
                               LET r == finalize_verification_send(
                                            Program, a, args, ixs,
                                            IF Len(ixs) = 1 THEN 0 ELSE current_index)
                               IN  HashedInputsMatch(acct[a], args)
                                       => /\ r.res = OK
                                          /\ r.p.acct[a].state = "Finalized"
                                          /\ r.p.nullifiers = nullifiers
                                          /\ r.p.queue = queue
                                          /\ r.p.transfers = <<>>
               /\ acct[a].state = "Finalized" /\ acct[a].request.token_id = 0
                      => \A args \in TransferLamportsArgs :
                           \A ixs \in TransferLamportsViews(a)
                                       \cup {<<FINALIZE_VERIFICATION_TRANSFER_LAMPORTS_INDEX>>} :
                               ( /\ args.original_fee_payer = acct[a].fee_payer
                                 /\ args.nullifier_duplicate_account
                                        = associated_nullifier_duplicate_pda_pubkey(
                                              acct[a].request) )
                                   => RejectedClosed(
                                          finalize_verification_transfer_lamports(
                                              Program, a, args, ixs,
                                              IF Len(ixs) = 1 THEN 0 ELSE current_index),
                                          a, args.nullifier_duplicate_account)
               /\ acct[a].state = "Finalized" /\ acct[a].request.token_id > 0
                      => \A args \in TransferTokenArgs :
                           \A ixs \in TransferTokenViews(a)
                                       \cup {<<FINALIZE_VERIFICATION_TRANSFER_TOKEN_INDEX>>} :
                               ( /\ args.original_fee_payer = acct[a].fee_payer
                                 /\ args.original_fee_payer_account_valid
                                 /\ args.nullifier_duplicate_account
                                        = associated_nullifier_duplicate_pda_pubkey(
                                              acct[a].request)
                                 /\ args.token_accounts_valid )
                                   => RejectedClosed(
                                          finalize_verification_transfer_token(
                                              Program, a, args, ixs,
                                              IF Len(ixs) = 1 THEN 0 ELSE current_index),
                                          a, args.nullifier_duplicate_account)

\* a rejected proof finalized by a finalize_verification_send alone, whose terminal
\* transfer closes it and pays the fee collector
C20_Witness ==
    \E a \in VAccs :
        /\ acct[a].is_verified = Some(FALSE)
        /\ acct[a].state = "Finalized"
        /\ acct[a].request.token_id = 0
        /\ ~acct[a].skip_nullifier_pda
        /\ tx = Idle
        /\ \E args \in TransferLamportsArgs :
               LET r == finalize_verification_transfer_lamports(
                            Program, a, args,
                            <<FINALIZE_VERIFICATION_TRANSFER_LAMPORTS_INDEX>>, 0)
               IN  /\ r.res = OK
                   /\ r.p.acct[a].state = "Closed"
                   /\ Pay(NullifierDuplicateAccountInfo, FeeCollector, Lamports(PdaRent))
                          \in Paid(r)

----------------------------------------------------------------------------
(* SpecFunds: one verification from init_verification to its terminal       *)
(* transfer, with the payments of every instruction settled in balance:     *)
(* both assets, recipients that are associated token accounts or not,        *)
(* several amounts and fee schedules, a commitment queue that is empty or    *)
(* full, and a duplicate-guard account that another verification may hold.   *)

FundsAccount == 1

\* the statements: both assets, amount 1 or 2, the recipient an associated token
\* account or not (bound by hashed_inputs)
FundsRequests ==
    {[SendRequest(<<In(ValidRoot, 1)>>, token_id, Commitment)
        EXCEPT !.amount = amount,
               !.total_amount = amount + 1,
               !.recipient_is_associated_token_account = is_ata,
               !.hashed_inputs = generate_hashed_inputs(Recipient, Identifier, Iv,
                                                        EncryptedOwner, NoReference,
                                                        is_ata, NoMemo)] :
        token_id \in TokenIds, amount \in 1..2, is_ata \in BOOLEAN}

FundsInitArgs ==
    {InitData([request |-> request, tree_indices |-> <<0, 1>>], skip) :
        request \in FundsRequests, skip \in BOOLEAN}

\* fee schedules whose minimum is the declared fee 1, with the batching rate and the
\* token price of the rent; and a call by a stranger
FundsFee(chf, pvf, nf, subvention, rate, rent_token) ==
    [TransferFeeData EXCEPT !.commitment_hash_fee = chf,
                            !.commitment_hash_fee_token = chf,
                            !.proof_verification_fee = pvf,
                            !.network_fee = nf,
                            !.subvention = subvention,
                            !.min_batching_rate = rate,
                            !.associated_token_account_rent_token = rent_token]

FundsFeeArgs ==
    {FundsFee(1, 1, 1, 2, 1, 1), FundsFee(1, 0, 0, 0, 2, 1), FundsFee(2, 0, 1, 2, 1, 2),
     [FundsFee(1, 1, 1, 2, 1, 1) EXCEPT !.fee_payer = Stranger]}

FundsProofArgs == [fee_payer : Payers, proof : {SomeProof, OtherProof}]

FundsSendArgs ==
    {[SendData(token_id, mt_index, 0) EXCEPT !.total_amount = total] :
        token_id \in TokenIds, mt_index \in 0..1, total \in 2..3}
    \cup {[SendData(0, 0, 0) EXCEPT !.recipient = Stranger]}

FundsTransferTokenArgs ==
    TransferTokenArgs
    \cup {[TransferData({1}) EXCEPT !.recipient_is_token_account = FALSE],
          [TransferData({1}) EXCEPT !.recipient = Stranger,
                                    !.recipient_is_token_account = FALSE],
          [TransferData({1}) EXCEPT !.recipient_wallet = Stranger],
          [TransferData({1}) EXCEPT !.associated_token_account_valid = FALSE],
          [TransferData({1}) EXCEPT !.recipient_exists = FALSE],
          [TransferData({1}) EXCEPT !.recipient_exists = FALSE, !.mint_valid = FALSE]}

\* the commitment queue filled by other verifications until enqueue refuses
OtherRequest == [commitment |-> reduce("other"), fee_version |-> 0, min_batching_rate |-> 0]

RECURSIVE fill(_, _)
fill(q, value) ==
    IF enqueue(q, value).res = OK THEN fill(enqueue(q, value).q, value) ELSE q

FullQueue == fill(EmptyQueueOf(0, ZeroRequest), OtherRequest)

InitFunds ==
    /\ queue \in {EmptyQueueOf(0, ZeroRequest), FullQueue}
    /\ fifo = <<>>
    /\ nullifiers = [t \in Trees |-> {}]
    /\ inserted = {}
    /\ acct = [a \in VAccs |-> AbsentAccount]
    /\ nda \in {{}, {{1}}}
    /\ tx = Idle
    /\ snap = NoSnap
    /\ last = NoCall
    /\ balance = NoBalance
    /\ array = NoArray

NextFunds ==
    \/ \E args \in FundsInitArgs : InitVerification(FundsAccount, args)
    \/ \E args \in FundsFeeArgs : InitVerificationTransferFee(FundsAccount, args)
    \/ \E args \in FundsProofArgs : InitVerificationProof(FundsAccount, args)
    \/ \E args \in ComputeArgs : ComputeVerification(FundsAccount, args)
    \/ \E args \in FundsSendArgs : FinalizeVerificationSend(FundsAccount, args)
    \/ \E args \in SendNullifierArgs :
            FinalizeVerificationSendNullifier(FundsAccount, args)
    \/ \E args \in TransferLamportsArgs :
            FinalizeVerificationTransferLamports(FundsAccount, args)
    \/ \E args \in FundsTransferTokenArgs :
            FinalizeVerificationTransferToken(FundsAccount, args)

SpecFunds == InitFunds /\ [][NextFunds]_vars

\* the verification of SpecFunds was closed with a rejected proof
RejectedAndClosed ==
    /\ acct[FundsAccount].state = "Closed"
    /\ acct[FundsAccount].is_verified = Some(FALSE)

\* C21: once the verification is closed with a rejected proof, the balances of the
\* pool, in lamports and in the token, are what they were before
\* init_verification_transfer_fee (the initial ones: no other instruction pays
\* into or out of the pool), for both terminal transfers and for every value of
\* recipient_is_associated_token_account.
C21_PoolRestored ==
    RejectedAndClosed => \A k \in TokenIds : balance[Pool][k] = NoBalance[Pool][k]

----------------------------------------------------------------------------
(* Properties of the terminal transfer of an accepted proof (SpecFunds) *)

\* the verification of SpecFunds awaits its terminal transfer with verdict true
AcceptedAndFinalized ==
    /\ acct[FundsAccount].state = "Finalized"
    /\ acct[FundsAccount].is_verified = Some(TRUE)

\* a terminal transfer returned r for the accepted verification: it closed the
\* verification, emptied the verification account and, unless skipped, the
\* duplicate-guard account into the original fee payer's wallet, and appended
\* exactly the request of the statement to the commitment queue
ClosedAndEnqueued(r, args) ==
    LET a == FundsAccount
        va == acct[a]
        key == associated_nullifier_duplicate_pda_pubkey(va.request)
    IN  /\ r.p.acct[a].state = "Closed"
        /\ r.p.acct[a].lamports = 0
        /\ va.lamports = PdaRent
        /\ Pay(VerificationAccountInfo, args.original_fee_payer, Lamports(PdaRent))
               \in Paid(r)
        /\ args.original_fee_payer = va.fee_payer
        /\ ~va.skip_nullifier_pda
               => /\ key \in nda /\ key \notin r.p.nda
                  /\ Pay(NullifierDuplicateAccountInfo, args.original_fee_payer,
                         Lamports(PdaRent)) \in Paid(r)
        /\ va.skip_nullifier_pda
               => /\ r.p.nda = nda
                  /\ \A t \in Paid(r) : t.from # NullifierDuplicateAccountInfo
        /\ \A t \in Paid(r) :
               t.from \in {VerificationAccountInfo, NullifierDuplicateAccountInfo}
                   => t.to = va.fee_payer
        /\ RingContent(r.p.queue)
               = Append(RingContent(queue),
                        [commitment |-> reduce(va.request.output_commitment),
                         fee_version |-> va.request.fee_version,
                         min_batching_rate |-> va.data.min_batching_rate])

\* C22: the batching rate an account records is the one init_verification_transfer_fee
\* was given, and it does not change afterwards; every terminal transfer that
\* succeeds on a verification with verdict true leaves it Closed, the
\* verification account and, unless skip_nullifier_pda, the duplicate-guard
\* account closed with their lamports paid to the original fee payer, and the
\* commitment queue longer by exactly one CommitmentHashRequest carrying the
\* reduced output commitment, the fee_version and the recorded min_batching_rate.
C22_AcceptedTransferCloses ==
    /\ [](LET a == FundsAccount
          IN  /\ acct[a].state = "None"
                    => \A args \in FundsFeeArgs :
                         LET r == init_verification_transfer_fee(Program, a, args)
                         IN  r.res = OK => r.p.acct[a].data.min_batching_rate
                                              = args.min_batching_rate
              /\ AcceptedAndFinalized
                    => /\ \A args \in TransferLamportsArgs :
                            \A ixs \in TransferLamportsViews(a) :
                                LET r == finalize_verification_transfer_lamports(
                                             Program, a, args, ixs, current_index)
                                IN  r.res = OK => ClosedAndEnqueued(r, args)
                       /\ \A args \in FundsTransferTokenArgs :
                            \A ixs \in TransferTokenViews(a) :
                                LET r == finalize_verification_transfer_token(
                                             Program, a, args, ixs, current_index)
                                IN  r.res = OK => ClosedAndEnqueued(r, args))
    /\ [][acct[FundsAccount].state \notin {"Absent", "None"}
              => acct'[FundsAccount].data = acct[FundsAccount].data]_vars

\* an accepted verification was closed: its accounts are empty, the queue holds its
\* request with the batching rate 2 of the fee transfer, the fee payer has the rent
C22_Witness ==
    LET va == acct[FundsAccount]
    IN  /\ va.state = "Closed" /\ va.is_verified = Some(TRUE)
        /\ va.lamports = 0
        /\ ~va.skip_nullifier_pda
        /\ nda = {}
        /\ va.data.min_batching_rate = 2
        /\ RingContent(queue) = <<[commitment |-> reduce(Commitment),
                                   fee_version |-> 0, min_batching_rate |-> 2]>>

\* the change of a wallet's balance of an asset in a step
Received(w, k) == balance'[w][k] - balance[w][k]

\* C23: a step in which finalize_verification_transfer_lamports closes a verification
\* with verdict true takes from the pool, in lamports, exactly the statement's
\* amount for the recorded recipient, commitment_hash_fee_token +
\* proof_verification_fee for the original fee payer (who also receives the rent
\* of the closed accounts) and network_fee for the fee collector, as recorded by
\* init_verification_transfer_fee from its fee schedule, and no token; and a
\* call with another recipient account, the other arguments and the sibling
\* instructions being right, fails with InvalidAccount.
C23_NativePayout ==
    /\ [][LET a == FundsAccount
              va == acct[a]
              data == va.data
              refund == data.commitment_hash_fee_token + data.proof_verification_fee
              rent == va.lamports + (IF va.skip_nullifier_pda THEN 0 ELSE PdaRent)
          IN  (AcceptedAndFinalized /\ va.request.token_id = 0
               /\ acct'[a].state = "Closed")
                  => /\ va.recipient_wallet = Recipient
                     /\ Received(Recipient, 0) = va.request.amount
                     /\ Received(va.fee_payer, 0) = refund + rent
                     /\ Received(FeeCollector, 0) = data.network_fee
                     /\ Received(Pool, 0)
                            = 0 - (va.request.amount + refund + data.network_fee)
                     /\ Received(Stranger, 0) = 0
                     /\ \A w \in Wallets : Received(w, 1) = 0]_vars
    /\ [](LET a == FundsAccount
              va == acct[a]
          IN  /\ va.state = "None"
                    => \A args \in FundsFeeArgs :
                         LET r == init_verification_transfer_fee(Program, a, args)
                             data == r.p.acct[a].data
                         IN  r.res = OK
                                 => /\ data.commitment_hash_fee_token
                                           = args.commitment_hash_fee_token
                                    /\ data.proof_verification_fee
                                           = args.proof_verification_fee
                                    /\ data.network_fee = args.network_fee
              /\ (AcceptedAndFinalized /\ va.request.token_id = 0)
                    => \A args \in TransferLamportsArgs :
                         \A ixs \in TransferLamportsViews(a) :
                             LET r == finalize_verification_transfer_lamports(
                                          Program, a, args, ixs, current_index)
                                 n == Len(va.request.input_commitments)
                             IN  args.recipient # va.recipient_wallet
                                     => /\ r.res # OK
                                        /\ ( /\ args.original_fee_payer = va.fee_payer
                                              /\ args.nullifier_duplicate_account
                                                     = associated_nullifier_duplicate_pda_pubkey(
                                                           va.request)
                                              /\ enforce_finalize_send_instructions(
                                                     ixs, current_index, n + 1, n, TRUE) = OK )
                                               => r.res = "InvalidAccount")

\* a native verification of amount 2 was paid out: the recipient holds 2, a stranger
\* nothing, the fee collector the network fee less the subvention it escrowed
C23_Witness ==
    LET va == acct[FundsAccount]
    IN  /\ va.state = "Closed" /\ va.is_verified = Some(TRUE)
        /\ va.request.token_id = 0
        /\ va.request.amount = 2
        /\ balance[Recipient][0] = 2
        /\ balance[Stranger][0] = 0
        /\ balance[FeeCollector][0] = va.data.network_fee - va.data.subvention
        /\ va.data.network_fee = 1

\* every guard of finalize_verification_transfer_token that does not concern the
\* recipient lets the call pass, and the commitment queue has room
TokenTransferCanPass(va, args, ixs) ==
    LET n == Len(va.request.input_commitments)
    IN  /\ args.original_fee_payer = va.fee_payer
        /\ args.original_fee_payer_account_valid
        /\ args.nullifier_duplicate_account
               = associated_nullifier_duplicate_pda_pubkey(va.request)
        /\ args.token_accounts_valid
        /\ enforce_finalize_send_instructions(ixs, current_index, n + 1, n, FALSE) = OK
        /\ enqueue(queue, ZeroRequest).res = OK

----------------------------------------------------------------------------
(* The terminal transfer and a full commitment queue (SpecFunds) *)

QueueFull == enqueue(queue, ZeroRequest).res = "QueueIsFull"

\* with a full queue no terminal transfer of the accepted verification succeeds, and
\* one that passes the guards of the handler fails with QueueIsFull
FullQueueRejects ==
    LET a == FundsAccount
        va == acct[a]
    IN  (AcceptedAndFinalized /\ QueueFull)
          => /\ \A args \in TransferLamportsArgs : \A ixs \in TransferLamportsViews(a) :
                    LET r == finalize_verification_transfer_lamports(Program, a, args, ixs,
                                                                     current_index)
                    IN  /\ r.res # OK
                        /\ ( /\ va.request.token_id = 0
                             /\ args = TransferData(
                                          associated_nullifier_duplicate_pda_pubkey(va.request)) )
                               => r.res = "QueueIsFull"
             /\ \A args \in FundsTransferTokenArgs : \A ixs \in TransferTokenViews(a) :
                    LET r == finalize_verification_transfer_token(Program, a, args, ixs,
                                                                  current_index)
                    IN  /\ r.res # OK
                        /\ ( /\ va.request.token_id > 0
                             /\ args = TransferData(
                                          associated_nullifier_duplicate_pda_pubkey(va.request)) )
                               => r.res = "QueueIsFull"

\* a verification with verdict false is closed by its terminal transfer whether or not
\* the queue is full: no call fails with QueueIsFull, the call with the right accounts
\* succeeds, and a call that succeeds closes the verification and leaves the queue
RejectedClosesAnyway ==
    LET a == FundsAccount
        va == acct[a]
        right == [TransferData(associated_nullifier_duplicate_pda_pubkey(va.request))
                    EXCEPT !.original_fee_payer = va.fee_payer]
    IN  (va.state = "Finalized" /\ va.is_verified = Some(FALSE))
          => /\ \A args \in TransferLamportsArgs : \A ixs \in TransferLamportsViews(a) :
                    LET r == finalize_verification_transfer_lamports(Program, a, args, ixs,
                                                                     current_index)
                    IN  /\ r.res # "QueueIsFull"
                        /\ (va.request.token_id = 0 /\ args = right) => r.res = OK
                        /\ r.res = OK => /\ r.p.acct[a].state = "Closed"
                                         /\ r.p.queue = queue
             /\ \A args \in FundsTransferTokenArgs : \A ixs \in TransferTokenViews(a) :
                    LET r == finalize_verification_transfer_token(Program, a, args, ixs,
                                                                  current_index)
                    IN  /\ r.res # "QueueIsFull"
                        /\ (va.request.token_id > 0 /\ args = right) => r.res = OK
                        /\ r.res = OK => /\ r.p.acct[a].state = "Closed"
                                         /\ r.p.queue = queue

----------------------------------------------------------------------------
(* What the handlers leave alone (SpecFunds) *)

\* the fields init_verification stores for good
Stored(va) == <<va.vkey_id, va.request, va.tree_indices, va.fee_payer, va.skip_nullifier_pda>>

\* a handler that returned r with success left the listed parts of account a alone
Keeps(r, a, proof, data, wallet) ==
    r.res = OK
        => /\ Stored(r.p.acct[a]) = Stored(acct[a])
           /\ proof => r.p.acct[a].proof = acct[a].proof
           /\ data => r.p.acct[a].data = acct[a].data
           /\ wallet => r.p.acct[a].recipient_wallet = acct[a].recipient_wallet

\* C30: once init_verification has created the account, every handler that succeeds
\* leaves its vkey_id, request (the public inputs), tree_indices, fee payer and
\* skip_nullifier_pda flag as they are; the proof points are left alone by every
\* handler but init_verification_proof, which succeeds only while they are unwritten
\* and writes the proof it is given; the fee breakdown is left alone by every handler
\* but init_verification_transfer_fee, and recipient_wallet by every handler but
\* finalize_verification_send; and no step, a discarded transaction included,
\* changes the stored fields while the account exists.
C30_Frame ==
    /\ [](LET a == FundsAccount
          IN  acct[a].state # "Absent"
                => /\ \A args \in FundsInitArgs :
                        Keeps(init_verification(Program, a, args), a, TRUE, TRUE, TRUE)
                   /\ \A args \in FundsFeeArgs :
                        Keeps(init_verification_transfer_fee(Program, a, args), a,
                              TRUE, FALSE, TRUE)
                   /\ \A args \in FundsProofArgs :
                        LET r == init_verification_proof(Program, a, args)
                        IN  /\ Keeps(r, a, FALSE, TRUE, TRUE)
                            /\ r.res = OK => /\ acct[a].proof = NoProof
                                             /\ r.p.acct[a].proof = args.proof
                   /\ \A args \in ComputeArgs :
                        Keeps(compute_verification(Program, a, args), a, TRUE, TRUE, TRUE)
                   /\ \A args \in FundsSendArgs : \A ixs \in SendViews(a) :
                        Keeps(finalize_verification_send(Program, a, args, ixs,
                                                         current_index),
                              a, TRUE, TRUE, FALSE)
                   /\ \A args \in SendNullifierArgs : \A ixs \in SendNullifierViews(a) :
                        Keeps(finalize_verification_send_nullifier(Program, a, args, ixs,
                                                                   current_index),
                              a, TRUE, TRUE, TRUE)
                   /\ \A args \in TransferLamportsArgs :
                        \A ixs \in TransferLamportsViews(a) :
                            Keeps(finalize_verification_transfer_lamports(
                                      Program, a, args, ixs, current_index),
                                  a, TRUE, TRUE, TRUE)
                   /\ \A args \in FundsTransferTokenArgs :
                        \A ixs \in TransferTokenViews(a) :
                            Keeps(finalize_verification_transfer_token(
                                      Program, a, args, ixs, current_index),
                                  a, TRUE, TRUE, TRUE))
    /\ [][(acct[FundsAccount].state # "Absent" /\ acct'[FundsAccount].state # "Absent")
             => Stored(acct'[FundsAccount]) = Stored(acct[FundsAccount])]_vars

\* a verification that went through every handler: closed with verdict true, the
\* second proof, the fee breakdown of the second fee schedule and the recipient
C30_Witness ==
    LET va == acct[FundsAccount]
    IN  /\ va.state = "Closed" /\ va.is_verified = Some(TRUE)
        /\ va.proof = OtherProof
        /\ va.data.min_batching_rate = 2
        /\ va.recipient_wallet = Recipient
        /\ va.fee_payer = Creator

----------------------------------------------------------------------------
(* SpecLife: the life of one verification account, a step being a whole     *)
(* transaction that succeeded (one that failed leaves no trace).  The       *)
(* creator's client submits the transactions of the documented order, the   *)
(* finalize instructions in one transaction; compute_verification asks for  *)
(* no signer and is open to every caller.                                   *)

\* the program state a successful transaction leaves
Commit(r) ==
    /\ r.res = OK
    /\ acct' = r.p.acct
    /\ nullifiers' = r.p.nullifiers
    /\ nda' = r.p.nda
    /\ queue' = r.p.queue
    /\ balance' = settle(balance, r.p.transfers)
    /\ UNCHANGED <<fifo, inserted, tx, snap, last, array>>

\* the instructions of a finalize transaction with k nullifier insertions
FinalizeIxs(k, uses_lamports) ==
    <<FINALIZE_VERIFICATION_SEND_INDEX>>
    \o [i \in 1..k |-> FINALIZE_VERIFICATION_SEND_NULLIFIER_INDEX]
    \o <<IF uses_lamports THEN FINALIZE_VERIFICATION_TRANSFER_LAMPORTS_INDEX
         ELSE FINALIZE_VERIFICATION_TRANSFER_TOKEN_INDEX>>

\* the nullifier insertions i .. k - 1 of a finalize transaction, r being the result
\* of the instructions before them: the first error ends the transaction
RECURSIVE send_nullifiers(_, _, _, _, _)
send_nullifiers(r, a, ixs, i, k) ==
    IF r.res # OK \/ i >= k THEN r
    ELSE CHOOSE out \in
             {send_nullifiers(next, a, ixs, i + 1, k) :
                next \in {finalize_verification_send_nullifier(
                              r.p, a, [input_commitment_index |-> i], ixs, i + 1)}} : TRUE

\* finalize_verification_send, k nullifier insertions and the terminal transfer in
\* one transaction, each instruction run on the state the one before it left
finalize_transaction(p, a, send, k, transfer, uses_lamports) ==
    LET ixs == FinalizeIxs(k, uses_lamports)
        sent == {finalize_verification_send(p, a, send, ixs, 0)}
        spent == {send_nullifiers(r, a, ixs, 0, k) : r \in sent}
        done == {IF r.res # OK THEN r
                 ELSE IF uses_lamports
                      THEN finalize_verification_transfer_lamports(r.p, a, transfer, ixs,
                                                                   k + 1)
                 ELSE finalize_verification_transfer_token(r.p, a, transfer, ixs, k + 1) :
                    r \in spent}
    IN  CHOOSE r \in done : TRUE

LifeInitArgs == {args \in InitArgs \cup FundsInitArgs : args.fee_payer = Creator}

LifeInit ==
    \E args \in LifeInitArgs :
        \E r \in {init_verification(Program, FundsAccount, args)} : Commit(r)

LifeTransferFee ==
    \E args \in TransferFeeArgs \cup FundsFeeArgs :
        \E r \in {init_verification_transfer_fee(Program, FundsAccount, args)} : Commit(r)

LifeProof ==
    \E args \in ProofArgs :
        \E r \in {init_verification_proof(Program, FundsAccount, args)} : Commit(r)

\* the client runs the computation once the proof is set up
ClientCompute ==
    /\ acct[FundsAccount].state = "ProofSetup"
    /\ \E args \in ComputeArgs :
           \E r \in {compute_verification(Program, FundsAccount, args)} : Commit(r)

\* any caller runs compute_verification at any time
OtherCompute ==
    \E args \in ComputeArgs :
        \E r \in {compute_verification(Program, FundsAccount, args)} : Commit(r)

\* the finalize transaction of the client: the arguments the request was made
\* with, one nullifier insertion per input when the verdict is true and none when it
\* is false, the terminal transfer of the asset
client_finalize(p, a) ==
    LET va == p.acct[a]
        request == va.request
        send == [SendData(request.token_id, 0, 0) EXCEPT !.total_amount = request.total_amount]
        k == IF va.is_verified = Some(TRUE) THEN Len(request.input_commitments) ELSE 0
        transfer == TransferData(associated_nullifier_duplicate_pda_pubkey(request))
    IN  finalize_transaction(p, a, send, k, transfer, request.token_id = 0)

LifeFinalize == \E r \in {client_finalize(Program, FundsAccount)} : Commit(r)

InitLife ==
    /\ queue = EmptyQueueOf(0, ZeroRequest)
    /\ fifo = <<>>
    /\ nullifiers = [t \in Trees |-> {}]
    /\ inserted = {}
    /\ acct = [a \in VAccs |-> AbsentAccount]
    /\ nda \in {{}, {{1}}}
    /\ tx = Idle
    /\ snap = NoSnap
    /\ last = NoCall
    /\ balance = NoBalance
    /\ array = NoArray

NextLife ==
    \/ LifeInit
    \/ LifeTransferFee
    \/ LifeProof
    \/ ClientCompute
    \/ OtherCompute
    \/ LifeFinalize

\* The cooperating client: each of its transactions is eventually submitted if it
\* stays able to succeed; the queue starts empty and is never full
SpecLife ==
    /\ InitLife
    /\ [][NextLife]_vars
    /\ WF_vars(LifeTransferFee)
    /\ WF_vars(LifeProof)
    /\ WF_vars(ClientCompute)
    /\ WF_vars(LifeFinalize)

\* C25: every verification account that init_verification created eventually
\* reaches Closed when the client's transactions are executed fairly and the
\* commitment queue is not full, whatever the verdict, the accepted statement
\* and the calls of other callers.
C25_EventuallyClosed ==
    (acct[FundsAccount].state = "None") ~> (acct[FundsAccount].state = "Closed")

----------------------------------------------------------------------------
(* SpecInputs: check_join_split_public_inputs applied to statements of up to *)
(* MaxInputs inputs, tree indices and nullifier sets drawn from bounded sets *)

MaxInputs == 5

\* every statement of up to 3 inputs over the roots and the hashes, and the
\* statements of one root whose inputs have the hashes 1, 2, ...
InputLists ==
    UNION {[1..n -> {In(root, nh) : root \in {NoRoot, ValidRoot, InvalidRoot},
                                    nh \in Hashes}] : n \in 1..3}
    \cup {[i \in 1..n |-> In(IF i = 1 THEN ValidRoot ELSE NoRoot, i)] : n \in 4..MaxInputs}

InputStatements ==
    {SendRequest(ics, 0, output) : ics \in InputLists,
                                   output \in {Commitment, ZERO_COMMITMENT}}

\* one call in a behaviour: the function changes nothing the next call depends on
CheckJoinSplitPublicInputs(public_inputs, tree_indices) ==
    /\ last = NoCall
    /\ last' = Call("check_join_split_public_inputs",
                    [public_inputs |-> public_inputs, tree_indices |-> tree_indices],
                    check_join_split_public_inputs(public_inputs, nullifiers, tree_indices),
                    0)
    /\ UNCHANGED <<queue, fifo, nullifiers, inserted, acct, nda, tx, snap, balance, array>>

InitInputs ==
    /\ queue = EmptyQueue(0)
    /\ fifo = <<>>
    /\ nullifiers \in [Trees -> SUBSET Hashes]
    /\ inserted = {}
    /\ acct = [a \in VAccs |-> AbsentAccount]
    /\ nda = {}
    /\ tx = Idle
    /\ snap = NoSnap
    /\ last = NoCall
    /\ balance = NoBalance
    /\ array = NoArray

NextInputs ==
    \E public_inputs \in InputStatements, tree_indices \in [1..MAX_MT_COUNT -> Trees] :
        CheckJoinSplitPublicInputs(public_inputs, tree_indices)

SpecInputs == InitInputs /\ [][NextInputs]_vars

\* the inputs that carry a root, in the order of the statement
Rooted(ics) == {i \in 1..Len(ics) : ics[i].root # NoRoot}

\* the supplied tree an input is assigned to: the k-th input with a root to the k-th
\* tree index, an input without a root to the first
AssignedTree(ics, tree_indices, i) ==
    IF i \in Rooted(ics)
    THEN tree_indices[Cardinality({j \in Rooted(ics) : j < i}) + 1]
    ELSE tree_indices[1]

\* the conditions of acceptance but the last: output commitment, root of the first
\* input, number of roots and distinct tree indices, valid roots, no hash twice in
\* one tree
WellFormed(public_inputs, tree_indices) ==
    LET ics == public_inputs.input_commitments
    IN  /\ public_inputs.output_commitment # ZERO_COMMITMENT
        /\ 1 \in Rooted(ics)
        /\ Cardinality(Rooted(ics)) <= 2
        /\ Cardinality(Rooted(ics)) = 2 => tree_indices[1] # tree_indices[2]
        /\ \A i \in Rooted(ics) : ics[i].root = ValidRoot
        /\ \A i, j \in 1..Len(ics) :
               (i # j /\ ics[i].nullifier_hash = ics[j].nullifier_hash)
                  => AssignedTree(ics, tree_indices, i) # AssignedTree(ics, tree_indices, j)

\* the nullifier hash of every input is absent from the set of its tree
AllUnspent(public_inputs, tree_indices) ==
    LET ics == public_inputs.input_commitments
    IN  \A i \in 1..Len(ics) :
            ics[i].nullifier_hash \notin nullifiers[AssignedTree(ics, tree_indices, i)]

\* C27 as stated: check_join_split_public_inputs accepts a statement iff the output
\* commitment is not zero, the first input carries a root, at most 2 inputs carry a
\* root and then the tree indices are distinct, every root is valid for its tree, no
\* two inputs of one tree share a nullifier hash, and every nullifier hash is absent
\* from its tree's set; when only the last condition fails the error is
\* CouldNotInsertNullifier.
C27_AsStated ==
    last.op = "check_join_split_public_inputs"
        => LET public_inputs == last.acc.public_inputs
               tree_indices == last.acc.tree_indices
           IN  /\ last.res = OK <=> ( /\ WellFormed(public_inputs, tree_indices)
                                      /\ AllUnspent(public_inputs, tree_indices) )
               /\ ( /\ WellFormed(public_inputs, tree_indices)
                    /\ ~AllUnspent(public_inputs, tree_indices) )
                      => last.res = "CouldNotInsertNullifier"

\* C27 amended: ... iff the statement has at most JOIN_SPLIT_MAX_N_ARITY inputs and
\* the conditions above hold; when only the condition on the nullifier sets fails the
\* error is CouldNotInsertNullifier.
C27_AcceptsIff ==
    last.op = "check_join_split_public_inputs"
        => LET public_inputs == last.acc.public_inputs
               tree_indices == last.acc.tree_indices
               arity == Len(public_inputs.input_commitments) <= JOIN_SPLIT_MAX_N_ARITY
           IN  /\ last.res = OK <=> ( /\ arity
                                      /\ WellFormed(public_inputs, tree_indices)
                                      /\ AllUnspent(public_inputs, tree_indices) )
               /\ ( /\ arity
                    /\ WellFormed(public_inputs, tree_indices)
                    /\ ~AllUnspent(public_inputs, tree_indices) )
                      => last.res = "CouldNotInsertNullifier"

\* a statement whose two inputs carry a root and the same nullifier hash, spent from
\* two trees, was accepted while the hash is in neither set
C27_Witness ==
    /\ last.op = "check_join_split_public_inputs"
    /\ last.res = OK
    /\ last.acc.public_inputs.input_commitments = <<In(ValidRoot, 1), In(ValidRoot, 1)>>
    /\ last.acc.tree_indices = <<1, 0>>

----------------------------------------------------------------------------
(* SpecInstances: the verification accounts of the fee payers.  A            *)
(* verification account is the PDA of its fee payer's key and its instance   *)
(* index; init_verification creates the account it is passed, which has to   *)
(* be that PDA.                                                              *)

\* instance indices: the first, the last below the cap, the cap
InstanceIndices == {0, RESERVED_VACCS_PER_FEE_PAYER - 1, RESERVED_VACCS_PER_FEE_PAYER}

\* the PDA of a fee payer's key and an instance index
verification_pda(fee_payer, index) == <<fee_payer, index>>

Pdas == {verification_pda(f, i) : f \in Payers, i \in InstanceIndices}

\* init_verification with open_pda_account_with_associated_pubkey::<VerificationAccount>
\* checking the account passed against the PDA
open_verification_account(p, a, args) ==
    LET r == init_verification(p, a, args)
    IN  IF r.res = OK /\ a # verification_pda(args.fee_payer, args.verification_account_index)
        THEN Res("InvalidAccount", p)
        ELSE r

InstanceData(fee_payer, index, skip) ==
    [InitData(SomeSubmission, skip) EXCEPT !.fee_payer = fee_payer,
                                          !.verification_account_index = index]

\* calls that meet the preconditions but perhaps the one on the index, by both
\* payers; and calls with a key that is not frozen, with the id of another circuit,
\* with a Migrate request and either id
InstanceArgs ==
    {InstanceData(f, i, skip) : f \in Payers, i \in InstanceIndices, skip \in BOOLEAN}
    \cup UNION {{[InstanceData(f, i, TRUE) EXCEPT !.vkey_is_frozen = FALSE],
                 [InstanceData(f, i, TRUE) EXCEPT !.vkey_id = MigrateUnaryVKey],
                 [InstanceData(f, i, TRUE) EXCEPT
                     !.request = MigrateRequest(<<In(ValidRoot, 1)>>)],
                 [InstanceData(f, i, TRUE) EXCEPT
                     !.request = MigrateRequest(<<In(ValidRoot, 1)>>),
                     !.vkey_id = MigrateUnaryVKey]} :
                    f \in Payers, i \in InstanceIndices}

InstanceInit(a, args) ==
    \E r \in {open_verification_account(Program, a, args)} :
        /\ acct' = r.p.acct
        /\ nda' = r.p.nda
        /\ balance' = settle(balance, r.p.transfers)
        /\ last' = Call("init_verification", [account |-> a, args |-> args], r.res, 0)
        /\ UNCHANGED <<queue, fifo, nullifiers, inserted, tx, snap, array>>

InitInstances ==
    /\ queue = EmptyQueueOf(0, ZeroRequest)
    /\ fifo = <<>>
    /\ nullifiers = [t \in Trees |-> {}]
    /\ inserted = {}
    /\ acct = [a \in Pdas |-> AbsentAccount]
    /\ nda \in {{}, {{1}}}
    /\ tx = Idle
    /\ snap = NoSnap
    /\ last = NoCall
    /\ balance = NoBalance
    /\ array = NoArray

NextInstances == \E a \in Pdas, args \in InstanceArgs : InstanceInit(a, args)

SpecInstances == InitInstances /\ [][NextInstances]_vars

\* the verification accounts of a fee payer that exist
AccountsOf(fee_payer) ==
    {a \in Pdas : acct[a].state # "Absent" /\ acct[a].fee_payer = fee_payer}

\* C28: an init_verification that succeeded was called with a frozen verifying key,
\* the vkey_id of the request's circuit, an instance index below
\* RESERVED_VACCS_PER_FEE_PAYER and no Migrate request, and left the account in
\* state None with no verdict and the caller as fee payer; every verification
\* account that exists is the PDA of its fee payer and an index below the cap, so a
\* fee payer has at most RESERVED_VACCS_PER_FEE_PAYER of them at a time.
C28_InitPreconditions ==
    /\ (last.op = "init_verification" /\ last.res = OK)
          => LET args == last.acc.args
                 va == acct[last.acc.account]
             IN  /\ args.vkey_is_frozen
                 /\ args.vkey_id = request_vkey_id(args.request)
                 /\ args.verification_account_index < RESERVED_VACCS_PER_FEE_PAYER
                 /\ args.request.kind # "Migrate"
                 /\ va.state = "None"
                 /\ va.is_verified = ONone
                 /\ va.fee_payer = args.fee_payer
    /\ \A f \in Payers :
          /\ \A a \in AccountsOf(f) :
                \E i \in 0..(RESERVED_VACCS_PER_FEE_PAYER - 1) : a = verification_pda(f, i)
          /\ Cardinality(AccountsOf(f)) <= RESERVED_VACCS_PER_FEE_PAYER

\* the creator has the accounts of the first and of the last index below the cap, the
\* latter just created
C28_Witness ==
    /\ last.op = "init_verification" /\ last.res = OK
    /\ last.acc.args.fee_payer = Creator
    /\ last.acc.args.verification_account_index = RESERVED_VACCS_PER_FEE_PAYER - 1
    /\ AccountsOf(Creator) = {verification_pda(Creator, 0),
                              verification_pda(Creator, RESERVED_VACCS_PER_FEE_PAYER - 1)}

----------------------------------------------------------------------------
(* SpecTime: is_timestamp_valid applied to asserted times and clock times up *)
(* to MaxTime seconds, and around a late window boundary                     *)

MaxTime == 70

Times == 0..MaxTime \cup {2 ^ 30 + k : k \in {-1, 0, 31, 32}}

\* one call in a behaviour: the function has no state
IsTimestampValid(asserted_time, timestamp) ==
    /\ last.op = "none"
    /\ last' = Call("is_timestamp_valid",
                    [asserted_time |-> asserted_time, timestamp |-> timestamp], OK,
                    IF is_timestamp_valid(asserted_time, timestamp) THEN 1 ELSE 0)
    /\ UNCHANGED <<queue, fifo, nullifiers, inserted, acct, nda, tx, snap, balance, array>>

InitTime ==
    /\ queue = EmptyQueue(0)
    /\ fifo = <<>>
    /\ nullifiers = [t \in Trees |-> {}]
    /\ inserted = {}
    /\ acct = [a \in VAccs |-> AbsentAccount]
    /\ nda = {}
    /\ tx = Idle
    /\ snap = NoSnap
    /\ last = NoCall
    /\ balance = NoBalance
    /\ array = NoArray

NextTime == \E asserted_time \in Times, timestamp \in Times :
                IsTimestampValid(asserted_time, timestamp)

SpecTime == InitTime /\ [][NextTime]_vars

\* the first second of the 32-second window a time lies in
WindowStart(t) == t - (t % 32)

\* C29: is_timestamp_valid(asserted, now) is true iff floor(asserted / 32) <=
\* floor(now / 32), that is iff the asserted time lies before the end of the
\* 32-second window of now: in the same window or in an earlier one.
C29_TimestampWindow ==
    last.op = "is_timestamp_valid"
        => LET asserted == last.acc.asserted_time
               now == last.acc.timestamp
           IN  /\ last.val = 1 <=> (asserted \div 32) <= (now \div 32)
               /\ last.val = 1 <=> asserted < WindowStart(now) + 32
               /\ last.val = 0 <=> WindowStart(asserted) > WindowStart(now)

\* the asserted time 31 was accepted at the clock time 0
C29_Witness ==
    /\ last.op = "is_timestamp_valid"
    /\ last.acc.asserted_time = 31
    /\ last.acc.timestamp = 0
    /\ last.val = 1

----------------------------------------------------------------------------
(* The generated instruction dispatcher:                                     *)
(* src/elusiv-derive/src/elusiv_instruction.rs, with the declarations of     *)
(* src/elusiv-warden-network/src/instruction.rs (SpecDispatch)               *)

\* an account attribute of a variant: #[kind(name, ..., { signer, writable, owned,
\* find_pda, account_info })]
Decl(kind, signer, writable, owned, find_pda, account_info) ==
    [kind |-> kind, signer |-> signer, writable |-> writable, owned |-> owned,
     find_pda |-> find_pda, account_info |-> account_info]

\* the account attributes of the variants of ElusivWardenNetworkInstruction, in
\* declaration order
RegisterBasicWarden ==
    <<Decl("acc", TRUE, TRUE, FALSE, FALSE, FALSE),
      Decl("pda", FALSE, TRUE, FALSE, TRUE, TRUE),
      Decl("pda", FALSE, TRUE, FALSE, TRUE, TRUE),
      Decl("pda", FALSE, TRUE, FALSE, FALSE, FALSE),
      Decl("pda", FALSE, TRUE, FALSE, FALSE, FALSE),
      Decl("sys", FALSE, FALSE, FALSE, FALSE, FALSE)>>

UpdateBasicWardenState ==
    <<Decl("acc", TRUE, FALSE, FALSE, FALSE, FALSE),
      Decl("pda", FALSE, TRUE, FALSE, FALSE, FALSE)>>

UpdateBasicWardenLut ==
    <<Decl("acc", TRUE, FALSE, FALSE, FALSE, FALSE),
      Decl("pda", FALSE, TRUE, FALSE, FALSE, FALSE),
      Decl("acc", FALSE, FALSE, FALSE, FALSE, FALSE)>>

\* every single attribute the generator accepts: each kind with each set of flags
\* (find_pda is read for the pda kind only, account_info for prg and pda)
AccountDecls ==
    {Decl(kind, signer, writable, owned, find_pda, account_info) :
        kind \in {"acc", "prg", "sys", "pda"}, signer \in BOOLEAN,
        writable \in BOOLEAN, owned \in BOOLEAN, find_pda \in BOOLEAN,
        account_info \in BOOLEAN}

\* the variants dispatched: the three of the warden network and one variant for
\* each single attribute
Variants ==
    {RegisterBasicWarden, UpdateBasicWardenState, UpdateBasicWardenLut}
    \cup {<<decl>> : decl \in {d \in AccountDecls :
                                  /\ d.kind # "pda" => ~d.find_pda
                                  /\ d.kind \in {"acc", "sys"} => ~d.account_info}}

\* The key of an account relative to its attribute: the key the attribute names
\* (key = .. of sys and prg, find(pda_offset).0 of pda), the address the same seeds
\* derive with another bump, or any other key.
DeclaredKey == "declared key"
OtherBumpKey == "address of another bump"
OtherKey == "other key"
AccountKeys == {DeclaredKey, OtherBumpKey, OtherKey}

\* The data of an account as the dispatcher reads it: PDAAccountFields with the
\* bump of find, with another bump that derives an address, with a bump that
\* derives none; three bytes that are no PDAAccountFields; fewer than three bytes;
\* readable fields in data the constructor of the account type rejects.
FindBump == "bump of find"
OtherBump == "another bump"
NoAddressBump == "bump without address"
Malformed == "malformed fields"
Short == "fewer than 3 bytes"
WrongSize == "fields in data of another size"
AccountData == {FindBump, OtherBump, NoAddressBump, Malformed, Short, WrongSize}

AccountInfos ==
    [is_signer : BOOLEAN, is_writable : BOOLEAN, owner : {"program", "system"},
     key : AccountKeys, data : AccountData]

\* PDAAccount::pubkey(offset, bump): create_program_address or InvalidSeeds
pubkey(bump) ==
    IF bump = FindBump THEN [res |-> OK, key |-> DeclaredKey]
    ELSE IF bump = OtherBump THEN [res |-> OK, key |-> OtherBumpKey]
    ELSE [res |-> "InvalidSeeds", key |-> OtherKey]

\* PDAAccount::is_valid_pubkey(account, offset, account.key): the slice of the
\* first 3 bytes panics on shorter data
is_valid_pubkey(account) ==
    IF account.data = Short THEN [res |-> "Panic", valid |-> FALSE]
    ELSE IF account.data = Malformed THEN [res |-> "InvalidAccountData", valid |-> FALSE]
    ELSE LET bump == IF account.data = WrongSize THEN FindBump ELSE account.data
         IN  IF pubkey(bump).res # OK THEN [res |-> pubkey(bump).res, valid |-> FALSE]
             ELSE [res |-> OK, valid |-> pubkey(bump).key = account.key]

\* <ty>::new(acc_data) of a program account type
new_account(account) ==
    IF account.data \in {Short, WrongSize} THEN "ConstructorError" ELSE OK

\* the statements generated for one attribute, after next_account_info
check_account_no_key_mutant(decl, account) ==
    IF decl.signer /\ ~account.is_signer THEN "InvalidArgument"
    ELSE IF decl.writable /\ ~account.is_writable THEN "InvalidArgument"
    ELSE IF decl.owned /\ account.owner # "program" THEN "InvalidArgument"
    ELSE IF decl.kind = "prg"
         THEN IF ~decl.owned /\ account.owner # "program" THEN "InvalidArgument"
              ELSE IF decl.account_info THEN OK
              ELSE new_account(account)
    ELSE IF decl.kind = "pda"
         THEN IF decl.account_info THEN OK ELSE new_account(account)
    ELSE OK

check_account(decl, account) ==
    IF decl.signer /\ ~account.is_signer THEN "InvalidArgument"
    ELSE IF decl.writable /\ ~account.is_writable THEN "InvalidArgument"
    ELSE IF decl.owned /\ account.owner # "program" THEN "InvalidArgument"
    ELSE IF decl.kind = "prg"
         THEN IF ~decl.owned /\ account.owner # "program" THEN "InvalidArgument"
              ELSE IF account.key # DeclaredKey THEN "InvalidArgument"
              ELSE IF decl.account_info THEN OK
              ELSE new_account(account)
    ELSE IF decl.kind = "sys"
         THEN IF account.key # DeclaredKey THEN "InvalidArgument" ELSE OK
    ELSE IF decl.kind = "pda"
         THEN IF decl.find_pda /\ account.key # DeclaredKey THEN "InvalidArgument"
              ELSE IF ~decl.find_pda /\ is_valid_pubkey(account).res # OK
                   THEN is_valid_pubkey(account).res
              ELSE IF ~decl.find_pda /\ ~is_valid_pubkey(account).valid
                   THEN "InvalidArgument"
              ELSE IF decl.account_info THEN OK
              ELSE new_account(account)
    ELSE OK

\* the generated function of a variant from its i-th attribute on: the accounts are
\* taken and checked in declaration order, then the processor function is called
RECURSIVE check_accounts(_, _, _)
check_accounts(variant, accounts, i) ==
    IF i > Len(variant) THEN [res |-> OK, called |-> TRUE]
    ELSE IF i > Len(accounts) THEN [res |-> "NotEnoughAccountKeys", called |-> FALSE]
    ELSE IF check_account(variant[i], accounts[i]) # OK
         THEN [res |-> check_account(variant[i], accounts[i]), called |-> FALSE]
    ELSE check_accounts(variant, accounts, i + 1)

\* process(program_id, accounts, instruction).  The arm `_ => InvalidInstructionData`
\* follows one arm for each variant of the enum.
process(variant, accounts) ==
    IF variant \in Variants THEN check_accounts(variant, accounts, 1)
    ELSE [res |-> "InvalidInstructionData", called |-> FALSE]

\* An address derived from the seeds of the program holds data only once the
\* program has created the account, which it then owns: an account at such an
\* address that the program does not own has no data.
Plausible(decl, account) ==
    decl.kind = "pda" /\ account.key \in {DeclaredKey, OtherBumpKey}
                      /\ account.owner # "program"
        => account.data = Short

\* an account that passes the checks of an attribute whatever its flags: the
\* account of a find_pda attribute passed as AccountInfo is one yet to be created
GoodAccount(decl) ==
    LET created == ~(decl.kind = "pda" /\ decl.find_pda /\ decl.account_info
                     /\ ~decl.owned)
    IN  [is_signer |-> TRUE, is_writable |-> TRUE,
         owner |-> IF decl.kind \in {"acc", "sys"} \/ ~created
                   THEN "system" ELSE "program",
         key |-> DeclaredKey,
         data |-> IF created THEN FindBump ELSE Short]

GoodAccounts(variant) == [i \in 1..Len(variant) |-> GoodAccount(variant[i])]

\* accounts with one thing wrong each
BadAccounts(decl) ==
    {[GoodAccount(decl) EXCEPT !.is_signer = FALSE],
     [GoodAccount(decl) EXCEPT !.key = OtherKey],
     [GoodAccount(decl) EXCEPT !.data = NoAddressBump],
     [GoodAccount(decl) EXCEPT !.data = Malformed]}

\* the account lists passed with a variant: the good list with any account at one
\* position, with accounts with one thing wrong at two positions, and cut short
AccountLists(variant) ==
    LET good == GoodAccounts(variant)
        n == Len(variant)
        lists ==
            {[good EXCEPT ![i] = account] : i \in 1..n, account \in AccountInfos}
            \cup {[good EXCEPT ![t[1]] = t[3], ![t[2]] = t[4]] :
                     t \in {u \in (1..n) \X (1..n) \X AccountInfos \X AccountInfos :
                               /\ u[1] < u[2]
                               /\ u[3] \in BadAccounts(variant[u[1]])
                               /\ u[4] \in BadAccounts(variant[u[2]])}}
            \cup {SubSeq(good, 1, k) : k \in 0..(n - 1)}
    IN  {list \in lists : \A i \in 1..Len(list) : Plausible(variant[i], list[i])}

Dispatch(variant, accounts) ==
    /\ last.op = "none"
    /\ last' = Call("process", [variant |-> variant, accounts |-> accounts],
                    process(variant, accounts).res,
                    IF process(variant, accounts).called THEN 1 ELSE 0)
    /\ UNCHANGED <<queue, fifo, nullifiers, inserted, acct, nda, tx, snap, balance, array>>

InitDispatch ==
    /\ queue = EmptyQueue(0)
    /\ fifo = <<>>
    /\ nullifiers = [t \in Trees |-> {}]
    /\ inserted = {}
    /\ acct = [a \in VAccs |-> AbsentAccount]
    /\ nda = {}
    /\ tx = Idle
    /\ snap = NoSnap
    /\ last = NoCall
    /\ balance = NoBalance
    /\ array = NoArray

NextDispatch == \E variant \in Variants : \E accounts \in AccountLists(variant) :
                    Dispatch(variant, accounts)

SpecDispatch == InitDispatch /\ [][NextDispatch]_vars

\* the checks the declaration of an account asks for, as the claim lists them
FlagsPass(decl, account) ==
    /\ decl.signer => account.is_signer
    /\ decl.writable => account.is_writable

KeyPasses(decl, account) ==
    /\ decl.kind \in {"sys", "prg"} => account.key = DeclaredKey
    /\ decl.kind = "pda" /\ decl.find_pda => account.key = DeclaredKey
    /\ decl.kind = "pda" /\ ~decl.find_pda =>
          \/ account.data \in {FindBump, WrongSize} /\ account.key = DeclaredKey
          \/ account.data = OtherBump /\ account.key = OtherBumpKey

\* ownership asked of every prg and pda account
StatedChecksPass(decl, account) ==
    /\ FlagsPass(decl, account)
    /\ decl.owned \/ decl.kind \in {"prg", "pda"} => account.owner = "program"
    /\ KeyPasses(decl, account)

\* ownership asked of the prg accounts and of the accounts declared owned
GeneratedChecksPass(decl, account) ==
    /\ FlagsPass(decl, account)
    /\ decl.owned \/ decl.kind = "prg" => account.owner = "program"
    /\ KeyPasses(decl, account)

\* the account type is constructed for the prg and pda accounts not passed as
\* AccountInfo
Constructed(decl) == decl.kind \in {"prg", "pda"} /\ ~decl.account_info

----------------------------------------------------------------------------
(* minimum_commitment_mt_index as a function of its arguments (SpecMinimum) *)

\* the largest commitment count and queue length passed
MaxCount == 9

Counts == 0..MaxCount

MinimumCommitmentMtIndex(mt_index, commitment_count, commitment_queue_len) ==
    /\ last.op = "none"
    /\ last' = Call("minimum_commitment_mt_index",
                    [mt_index |-> mt_index, commitment_count |-> commitment_count,
                     commitment_queue_len |-> commitment_queue_len], OK,
                    minimum_commitment_mt_index(mt_index, commitment_count,
                                                commitment_queue_len))
    /\ UNCHANGED <<queue, fifo, nullifiers, inserted, acct, nda, tx, snap, balance, array>>

InitMinimum ==
    /\ queue = EmptyQueue(0)
    /\ fifo = <<>>
    /\ nullifiers = [t \in Trees |-> {}]
    /\ inserted = {}
    /\ acct = [a \in VAccs |-> AbsentAccount]
    /\ nda = {}
    /\ tx = Idle
    /\ snap = NoSnap
    /\ last = NoCall
    /\ balance = NoBalance
    /\ array = NoArray

NextMinimum ==
    \E mt_index \in 0..1, commitment_count \in Counts, commitment_queue_len \in Counts :
        MinimumCommitmentMtIndex(mt_index, commitment_count, commitment_queue_len)

SpecMinimum == InitMinimum /\ [][NextMinimum]_vars

\* C32: minimum_commitment_mt_index(mt_index, commitment_count, queue_len) is the
\* pair ((commitment_count + queue_len) mod MT_COMMITMENT_COUNT, mt_index +
\* (commitment_count + queue_len) div MT_COMMITMENT_COUNT): the position that
\* follows the commitment_count + queue_len commitments placed before it, counted
\* from the first leaf of tree mt_index through trees of MT_COMMITMENT_COUNT leaves.
C32_MinimumIndex ==
    last.op = "minimum_commitment_mt_index"
        => LET before == last.acc.commitment_count + last.acc.commitment_queue_len
               index == last.val[1]
               tree == last.val[2]
           IN  /\ last.val = <<before % MT_COMMITMENT_COUNT,
                               last.acc.mt_index + (before \div MT_COMMITMENT_COUNT)>>
               /\ index \in 0..(MT_COMMITMENT_COUNT - 1)
               /\ tree >= last.acc.mt_index
               /\ (tree - last.acc.mt_index) * MT_COMMITMENT_COUNT + index = before
               /\ before < MT_COMMITMENT_COUNT => tree = last.acc.mt_index
               /\ before >= MT_COMMITMENT_COUNT => tree > last.acc.mt_index

\* a full active tree and a queue of one more than a tree: the pending commitment
\* is the second leaf of the tree two after the active one
C32_Witness ==
    /\ last.op = "minimum_commitment_mt_index"
    /\ last.acc.mt_index = 0
    /\ last.acc.commitment_count = MT_COMMITMENT_COUNT
    /\ last.acc.commitment_queue_len = MT_COMMITMENT_COUNT + 1
    /\ last.val = <<1, 2>>

----------------------------------------------------------------------------
(* get and set on a BigArrayAccount (SpecArray) *)

\* the values of an element, and the indices passed: every index of the array and
\* the first one beyond it
Elements == [1..ElementSize -> Bytes]
ArrayIndices == 0..VALUES_COUNT

ArraySet(index, value) ==
    LET r == big_array_set(array, index, value)
    IN  /\ array' = r.accounts
        /\ last' = Call("set", index, r.res, value)
        /\ UNCHANGED <<queue, fifo, nullifiers, inserted, acct, nda, tx, snap, balance>>

ArrayGet(index) ==
    LET r == big_array_get(array, index)
    IN  /\ last' = Call("get", index, r.res, r.val)
        /\ UNCHANGED <<queue, fifo, nullifiers, inserted, acct, nda, tx, snap, balance, array>>

InitArray ==
    /\ queue = EmptyQueue(0)
    /\ fifo = <<>>
    /\ nullifiers = [t \in Trees |-> {}]
    /\ inserted = {}
    /\ acct = [a \in VAccs |-> AbsentAccount]
    /\ nda = {}
    /\ tx = Idle
    /\ snap = NoSnap
    /\ last = NoCall
    /\ balance = NoBalance
    /\ array = NoArray

NextArray ==
    \/ \E index \in ArrayIndices, value \in Elements : ArraySet(index, value)
    \/ \E index \in ArrayIndices : ArrayGet(index)

SpecArray == InitArray /\ [][NextArray]_vars

\* C34: account_and_local_index maps the indices below VALUES_COUNT to distinct
\* pairs (sub-account, local offset) with the sub-account below COUNT and the local
\* offset below MAX_VALUES_PER_ACCOUNT, the element lying within the bytes of its
\* sub-account, also in the shorter last one; get(i) after set(i, v) is v, and
\* set(i, v) leaves get(j) as it was for every other index j.
C34_GetSet ==
    /\ [](\A i \in 0..(VALUES_COUNT - 1) :
             LET pair == account_and_local_index(i)
             IN  /\ pair[1] \in 0..(COUNT - 1)
                 /\ pair[2] \in 0..(MAX_VALUES_PER_ACCOUNT - 1)
                 /\ (pair[2] + 1) * ElementSize <= SubAccountSize(pair[1])
                 /\ pair[1] * MAX_VALUES_PER_ACCOUNT + pair[2] = i
                 /\ \A j \in 0..(VALUES_COUNT - 1) :
                        account_and_local_index(j) = pair => j = i
                 /\ big_array_get(array, i).res = OK)
    /\ [][last'.op = "set" /\ last'.acc < VALUES_COUNT =>
             /\ last'.res = OK
             /\ big_array_get(array', last'.acc) = [res |-> OK, val |-> last'.val]
             /\ \A j \in 0..(VALUES_COUNT - 1) :
                    j # last'.acc => big_array_get(array', j) = big_array_get(array, j)]_vars

\* the last element, in the shorter last sub-account, was set to a value whose two
\* bytes differ, while the elements on the two sides of the boundary between the
\* first two sub-accounts hold two other values
C34_Witness ==
    /\ last.op = "set" /\ last.res = OK
    /\ last.acc = VALUES_COUNT - 1
    /\ account_and_local_index(last.acc) = <<COUNT - 1, 0>>
    /\ last.val[1] # last.val[2]
    /\ big_array_get(array, last.acc).val = last.val
    /\ big_array_get(array, MAX_VALUES_PER_ACCOUNT - 1).val # last.val
    /\ big_array_get(array, MAX_VALUES_PER_ACCOUNT).val # last.val
    /\ big_array_get(array, MAX_VALUES_PER_ACCOUNT - 1).val
          # big_array_get(array, MAX_VALUES_PER_ACCOUNT).val

----------------------------------------------------------------------------
(* SpecPay: a native-asset verification whose statement may ask for a        *)
(* solana_pay_transfer, from init_verification to the finalize transaction,  *)
(* which ends with any instruction, or none, after the terminal transfer.    *)
(* A step is a whole transaction that succeeds; last records the finalize    *)
(* transaction.                                                              *)

PayRequests ==
    {[request EXCEPT !.solana_pay_transfer = solana_pay_transfer] :
        request \in {r \in FundsRequests :
                        r.token_id = 0 /\ ~r.recipient_is_associated_token_account},
        solana_pay_transfer \in BOOLEAN}

PayInitArgs ==
    {InitData([request |-> request, tree_indices |-> <<0, 1>>], FALSE) :
        request \in PayRequests}

\* the instructions that may end the transaction
Trailing ==
    {<<>>, <<ForeignIx>>} \cup {<<serialize(ix)>> : ix \in PayInstructions}

\* The instruction that ends the transaction is run by its program: a transfer of
\* the system program moves the lamports if the source signed and both accounts
\* are writable, and fails otherwise; other instructions move nothing followed here.
run_trailing(trailing) ==
    LET instruction == instruction_at_index(trailing, 0).instruction
        accounts == instruction.accounts
    IN  IF trailing = <<>> \/ instruction.program_id # SystemProgram
        THEN [res |-> OK, transfers |-> <<>>]
        ELSE IF Len(accounts) < 2
             THEN [res |-> "NotEnoughAccountKeys", transfers |-> <<>>]
        ELSE IF ~accounts[1].is_signer
             THEN [res |-> "MissingRequiredSignature", transfers |-> <<>>]
        ELSE IF ~accounts[1].is_writable \/ ~accounts[2].is_writable
             THEN [res |-> "ReadonlyLamportChange", transfers |-> <<>>]
        ELSE [res |-> OK,
              transfers |-> <<Pay(accounts[1].pubkey, accounts[2].pubkey,
                                  Lamports(instruction.data.transfer))>>]

\* finalize_verification_send, k nullifier insertions, the terminal transfer of
\* lamports and the trailing instruction in one transaction
pay_transaction(p, a, send, k, transfer, trailing) ==
    LET ixs == FinalizeIxs(k, TRUE) \o trailing
        sent == {finalize_verification_send(p, a, send, ixs, 0)}
        spent == {send_nullifiers(r, a, ixs, 0, k) : r \in sent}
        done == {IF r.res # OK THEN r
                 ELSE finalize_verification_transfer_lamports(r.p, a, transfer, ixs, k + 1) :
                    r \in spent}
        closed == CHOOSE r \in done : TRUE
    IN  IF closed.res # OK THEN closed
        ELSE IF run_trailing(trailing).res # OK THEN Res(run_trailing(trailing).res, p)
        ELSE Res(OK, [closed.p EXCEPT
                        !.transfers = closed.p.transfers \o run_trailing(trailing).transfers])

PayInit ==
    \E args \in PayInitArgs :
        \E r \in {init_verification(Program, FundsAccount, args)} : Commit(r)

PayTransferFee ==
    \E args \in FundsFeeArgs :
        \E r \in {init_verification_transfer_fee(Program, FundsAccount, args)} : Commit(r)

PayProof ==
    \E args \in ProofArgs :
        \E r \in {init_verification_proof(Program, FundsAccount, args)} : Commit(r)

PayCompute ==
    \E args \in ComputeArgs :
        \E r \in {compute_verification(Program, FundsAccount, args)} : Commit(r)

\* the finalize transaction of the client, ended by any instruction
PayFinalize(trailing) ==
    LET va == acct[FundsAccount]
        request == va.request
        send == [SendData(request.token_id, 0, 0) EXCEPT !.total_amount = request.total_amount]
        k == IF va.is_verified = Some(TRUE) THEN Len(request.input_commitments) ELSE 0
        transfer == TransferData(associated_nullifier_duplicate_pda_pubkey(request))
    IN  /\ va.state = "ProofSetup"
        /\ \E r \in {pay_transaction(Program, FundsAccount, send, k, transfer, trailing)} :
              /\ r.res = OK
              /\ acct' = r.p.acct
              /\ nullifiers' = r.p.nullifiers
              /\ nda' = r.p.nda
              /\ queue' = r.p.queue
              /\ balance' = settle(balance, r.p.transfers)
              /\ last' = Call("finalize_transaction",
                              [ixs |-> FinalizeIxs(k, TRUE) \o trailing,
                               args |-> transfer],
                              r.res, r.p.transfers)
        /\ UNCHANGED <<fifo, inserted, tx, snap, array>>

InitPay ==
    /\ queue = EmptyQueueOf(0, ZeroRequest)
    /\ fifo = <<>>
    /\ nullifiers = [t \in Trees |-> {}]
    /\ inserted = {}
    /\ acct = [a \in VAccs |-> AbsentAccount]
    /\ nda = {}
    /\ tx = Idle
    /\ snap = NoSnap
    /\ last = NoCall
    /\ balance = NoBalance
    /\ array = NoArray

NextPay ==
    \/ PayInit
    \/ PayTransferFee
    \/ PayProof
    \/ PayCompute
    \/ \E trailing \in Trailing : PayFinalize(trailing)

SpecPay == InitPay /\ [][NextPay]_vars

\* the payments of the pool in a list of payments, to a wallet
PoolPaid(transfers, to) ==
    {i \in 1..Len(transfers) : transfers[i].from = Pool /\ transfers[i].to = to}

----------------------------------------------------------------------------
(* SpecQueueAccount: a queue generated by queue_account!, whose data array   *)
(* has $size slots while its ring modulus is SIZE = $size * N::SIZE.  The    *)
(* account starts zeroed; last.acc is the set of indices an operation passes *)
(* to get_data or set_data.                                                  *)

\* N::SIZE, the bytes of a serialized request
RequestSize == 2

\* $size, the slots of data: [$ty; $size], with SIZE = $size * N::SIZE
QueueAccountSlots == SIZE \div RequestSize

EmptyQueueAccount ==
    [head |-> 0, tail |-> 0, data |-> [i \in 0..(QueueAccountSlots - 1) |-> 0]]

\* the indices enqueue passes to set_data
enqueue_indices(q) ==
    IF (q.tail + 1) % SIZE # q.head THEN {q.tail} ELSE {}

\* the indices dequeue_first and view(offset) pass to get_data
view_indices(q, offset) ==
    IF q.head # q.tail THEN {(q.head + offset) % SIZE} ELSE {}

\* the indices contains passes to get_data, up to the first match or the first
\* index outside the array
RECURSIVE contains_indices(_, _, _)
contains_indices(q, ptr, value) ==
    IF ptr = q.tail THEN {}
    ELSE IF ptr >= QueueAccountSlots THEN {ptr}
    ELSE IF q.data[ptr] = value THEN {ptr}
    ELSE {ptr} \cup contains_indices(q, (ptr + 1) % SIZE, value)

\* get_data and set_data slice the data of the account: an index outside the
\* array panics and the instruction changes nothing
InArray(indices) ==
    \A index \in indices : index < QueueAccountSlots

AccountEnqueue(value) ==
    LET indices == enqueue_indices(queue)
    IN  /\ queue' = IF InArray(indices) THEN enqueue(queue, value).q ELSE queue
        /\ last' = Call("enqueue", indices,
                        IF InArray(indices) THEN enqueue(queue, value).res ELSE "Panic",
                        value)
        /\ UNCHANGED <<fifo, nullifiers, inserted, acct, nda, tx, snap, balance, array>>

AccountDequeueFirst ==
    LET indices == view_indices(queue, 0)
    IN  /\ queue' = IF InArray(indices) THEN dequeue_first(queue).q ELSE queue
        /\ last' = Call("dequeue_first", indices,
                        IF InArray(indices) THEN dequeue_first(queue).res ELSE "Panic",
                        IF InArray(indices) THEN dequeue_first(queue).val ELSE 0)
        /\ UNCHANGED <<fifo, nullifiers, inserted, acct, nda, tx, snap, balance, array>>

\* view of one of the stored elements
AccountView(offset) ==
    LET indices == view_indices(queue, offset)
    IN  /\ offset < (queue.tail + SIZE - queue.head) % SIZE
        /\ last' = Call("view", indices,
                        IF InArray(indices) THEN view(queue, offset).res ELSE "Panic",
                        IF InArray(indices) THEN view(queue, offset).val ELSE 0)
        /\ UNCHANGED <<queue, fifo, nullifiers, inserted, acct, nda, tx, snap, balance, array>>

AccountContains(value) ==
    LET indices == contains_indices(queue, queue.head, value)
    IN  /\ last' = Call("contains", indices,
                        IF InArray(indices) THEN OK ELSE "Panic",
                        IF InArray(indices) /\ contains(queue, value) THEN 1 ELSE 0)
        /\ UNCHANGED <<queue, fifo, nullifiers, inserted, acct, nda, tx, snap, balance, array>>

\* len reads head and tail only
AccountLen ==
    /\ last' = Call("len", {}, OK, len(queue))
    /\ UNCHANGED <<queue, fifo, nullifiers, inserted, acct, nda, tx, snap, balance, array>>

InitQueueAccount ==
    /\ queue = EmptyQueueAccount
    /\ fifo = <<>>
    /\ nullifiers = [t \in Trees |-> {}]
    /\ inserted = {}
    /\ acct = [a \in VAccs |-> AbsentAccount]
    /\ nda = {}
    /\ tx = Idle
    /\ snap = NoSnap
    /\ last = NoCall
    /\ balance = NoBalance
    /\ array = NoArray

NextQueueAccount ==
    \/ \E value \in Values : AccountEnqueue(value)
    \/ AccountDequeueFirst
    \/ \E offset \in QueueOffsets : AccountView(offset)
    \/ \E value \in Values : AccountContains(value)
    \/ AccountLen

SpecQueueAccount == InitQueueAccount /\ [][NextQueueAccount]_vars

\* C37: for the queues generated by queue_account!, every index that enqueue,
\* dequeue_first, view or contains passes to get_data or set_data is smaller than
\* the number of slots of the data array, for every head and tail reachable from
\* the empty queue.
C37_IndexInArray ==
    last.op \in {"enqueue", "dequeue_first", "view", "contains"}
        => \A index \in last.acc : index < QueueAccountSlots

----------------------------------------------------------------------------
(* The verdict and the state of a verification account, in Spec *)

\* C38: in every reachable state a verification account whose verdict is recorded
\* (is_verified is Some) is in state ProofSetup, InsertNullifiers, Finalized or
\* Closed: no verdict is recorded while the account is in state None or
\* FeeTransferred.
C38_VerdictState ==
    \A a \in VAccs :
        acct[a].is_verified # ONone
            => acct[a].state \in {"ProofSetup", "InsertNullifiers", "Finalized", "Closed"}

----------------------------------------------------------------------------
(* SpecCalls: the calls of the handlers on one verification account, with    *)
(* what a call had written when it returned.  A call that fails is rolled    *)
(* back with its transaction; last.acc holds what the handler saw (before)   *)
(* and what it had written and transferred when it returned (after).         *)

Written(p) ==
    [acct |-> p.acct[FundsAccount], nullifiers |-> p.nullifiers, nda |-> p.nda,
     queue |-> p.queue, transfers |-> p.transfers]

\* the transaction of r, the result of the call op, commits the result done of
\* its last instruction, or is rolled back
Called(op, r, done) ==
    /\ acct' = IF done.res = OK THEN done.p.acct ELSE acct
    /\ nullifiers' = IF done.res = OK THEN done.p.nullifiers ELSE nullifiers
    /\ nda' = IF done.res = OK THEN done.p.nda ELSE nda
    /\ queue' = IF done.res = OK THEN done.p.queue ELSE queue
    /\ balance' = IF done.res = OK THEN settle(balance, done.p.transfers) ELSE balance
    /\ last' = Call(op, [before |-> Written(Program), after |-> Written(r.p)], r.res, 0)
    /\ UNCHANGED <<fifo, inserted, tx, snap, array>>

CallRequests ==
    {request \in FundsRequests :
        /\ request.token_id = 0
        /\ ~request.recipient_is_associated_token_account
        /\ request.amount = 1}

CallInitArgs ==
    {InitData([request |-> request, tree_indices |-> <<0, 1>>], FALSE) :
        request \in CallRequests}
    \cup {[InitData([request |-> request, tree_indices |-> <<0, 1>>], FALSE)
            EXCEPT !.vkey_is_frozen = FALSE] : request \in CallRequests}

CallFeeArgs ==
    {FundsFee(1, 1, 1, 2, 1, 1),
     [FundsFee(1, 1, 1, 2, 1, 1) EXCEPT !.fee_payer = Stranger],
     [FundsFee(1, 1, 1, 2, 1, 1) EXCEPT !.accounts_valid = FALSE],
     [FundsFee(1, 1, 1, 2, 1, 1) EXCEPT !.fee_payer_account_valid = FALSE],
     FundsFee(2, 2, 2, 0, 1, 1)}

CallSendArgs ==
    {SendData(0, 0, 0),
     [SendData(0, 0, 0) EXCEPT !.recipient = Stranger],
     [SendData(0, 0, 0) EXCEPT !.timestamp = 33],
     [SendData(0, 0, 0) EXCEPT !.total_amount = 3],
     SendData(1, 0, 0),
     SendData(0, 1, 0),
     SendData(0, 0, 1),
     [SendData(0, 0, 0) EXCEPT !.uses_memo = TRUE]}

CallInit(args) ==
    LET r == init_verification(Program, FundsAccount, args)
    IN  Called("init_verification", r, r)

CallTransferFee(args) ==
    LET r == init_verification_transfer_fee(Program, FundsAccount, args)
    IN  Called("init_verification_transfer_fee", r, r)

CallProof(args) ==
    LET r == init_verification_proof(Program, FundsAccount, args)
    IN  Called("init_verification_proof", r, r)

CallCompute(args) ==
    LET r == compute_verification(Program, FundsAccount, args)
    IN  Called("compute_verification", r, r)

\* finalize_verification_send as the first instruction of a transaction: alone, or
\* followed by the nullifier insertions and the terminal transfer of the client
CallSend(args, alone) ==
    LET va == acct[FundsAccount]
        k == IF va.is_verified = Some(TRUE) THEN Len(va.request.input_commitments) ELSE 0
        ixs == IF alone THEN <<FINALIZE_VERIFICATION_SEND_INDEX>> ELSE FinalizeIxs(k, TRUE)
        transfer == TransferData(associated_nullifier_duplicate_pda_pubkey(va.request))
        r == finalize_verification_send(Program, FundsAccount, args, ixs, 0)
    IN  Called("finalize_verification_send", r,
               IF r.res # OK \/ alone THEN r
               ELSE finalize_transaction(Program, FundsAccount, args, k, transfer, TRUE))

InitCalls ==
    /\ queue = EmptyQueueOf(0, ZeroRequest)
    /\ fifo = <<>>
    /\ nullifiers = [t \in Trees |-> {}]
    /\ inserted = {}
    /\ acct = [a \in VAccs |-> AbsentAccount]
    /\ nda = {}
    /\ tx = Idle
    /\ snap = NoSnap
    /\ last = NoCall
    /\ balance = NoBalance
    /\ array = NoArray

NextCalls ==
    \/ \E args \in CallInitArgs : CallInit(args)
    \/ \E args \in CallFeeArgs : CallTransferFee(args)
    \/ \E args \in ProofArgs : CallProof(args)
    \/ \E args \in ComputeArgs : CallCompute(args)
    \/ \E args \in CallSendArgs, alone \in BOOLEAN : CallSend(args, alone)

SpecCalls == InitCalls /\ [][NextCalls]_vars

Failed(op) ==
    last.op = op /\ last.res # OK

\* C39 as stated: every handler evaluates all of its guards before its first write
\* to the verification account and before its first transfer: a call that returns an
\* error has written and transferred nothing.
C39_AsStated ==
    last.op # "none" /\ last.res # OK => last.acc.after = last.acc.before

\* C39, amended: a call that returns an error persists nothing because its
\* transaction is rolled back, not because the guards come first.  A failed
\* init_verification_proof has written nothing.  A failed finalize_verification_send
\* has written nothing but recipient_wallet, which it has set to the recipient when
\* it fails with ComputationIsNotYetFinished, with an error of the sibling
\* instructions or with InputsMismatch after the guard on hashed_inputs.  A failed
\* init_verification_transfer_fee has not written the verification account, and has
\* made both of its transfers when it fails on the fee payer's token account.
C39_FailedCalls ==
    /\ last.op # "none" /\ last.res # OK => Written(Program) = last.acc.before
    /\ Failed("init_verification_proof") => last.acc.after = last.acc.before
    /\ Failed("finalize_verification_send")
        => /\ last.acc.after =
                [last.acc.before EXCEPT
                    !.acct.recipient_wallet = last.acc.after.acct.recipient_wallet]
           /\ last.res = "ComputationIsNotYetFinished"
                => last.acc.after.acct.recipient_wallet # ONone
           /\ last.res \in {"InvalidAccountState", "FeatureNotAvailable"}
                => last.acc.after = last.acc.before
    /\ Failed("init_verification_transfer_fee")
        => /\ last.acc.after =
                [last.acc.before EXCEPT !.transfers = last.acc.after.transfers]
           /\ last.acc.after.transfers # <<>>
                => /\ last.res = "InvalidAccount"
                   /\ Len(last.acc.after.transfers) = 2

\* a finalize_verification_send has failed with ComputationIsNotYetFinished after it
\* wrote the recipient, and the account holds no recipient
C39_Witness ==
    /\ Failed("finalize_verification_send")
    /\ last.res = "ComputationIsNotYetFinished"
    /\ last.acc.before.acct.recipient_wallet = ONone
    /\ last.acc.after.acct.recipient_wallet = Recipient
    /\ acct[FundsAccount].recipient_wallet = ONone
    /\ acct[FundsAccount].state = "ProofSetup"

----------------------------------------------------------------------------
(* SpecPayout: a native-asset verification under every fee schedule, from    *)
(* init_verification to the finalize transaction; a step is a whole          *)
(* transaction that succeeded.  balance[Pool][0] is what the pool has        *)
(* received less what it has paid, in lamports.                              *)

\* the statements: native asset, amount 1 or 2, every declared fee
PayoutRequests ==
    {[request EXCEPT !.fee = fee, !.total_amount = request.amount + fee] :
        request \in {r \in FundsRequests :
                        r.token_id = 0 /\ ~r.recipient_is_associated_token_account},
        fee \in 0..3}

PayoutInitArgs ==
    {InitData([request |-> request, tree_indices |-> <<0, 1>>], FALSE) :
        request \in PayoutRequests}

\* every fee schedule; for the native asset commitment_hash_fee_token is
\* commitment_hash_fee
PayoutFeeArgs ==
    {FeeData(chf, pvf, nf, subvention) :
        chf \in 0..2, pvf \in 0..2, nf \in 0..2, subvention \in 0..3}

PayoutInit ==
    \E args \in PayoutInitArgs :
        \E r \in {init_verification(Program, FundsAccount, args)} : Commit(r)

PayoutTransferFee ==
    \E args \in PayoutFeeArgs :
        \E r \in {init_verification_transfer_fee(Program, FundsAccount, args)} : Commit(r)

PayoutProof ==
    \E args \in ProofArgs :
        \E r \in {init_verification_proof(Program, FundsAccount, args)} : Commit(r)

PayoutCompute ==
    /\ acct[FundsAccount].state = "ProofSetup"
    /\ \E args \in ComputeArgs :
           \E r \in {compute_verification(Program, FundsAccount, args)} : Commit(r)

PayoutFinalize ==
    \E r \in {client_finalize(Program, FundsAccount)} : Commit(r)

InitPayout ==
    /\ queue = EmptyQueueOf(0, ZeroRequest)
    /\ fifo = <<>>
    /\ nullifiers = [t \in Trees |-> {}]
    /\ inserted = {}
    /\ acct = [a \in VAccs |-> AbsentAccount]
    /\ nda = {}
    /\ tx = Idle
    /\ snap = NoSnap
    /\ last = NoCall
    /\ balance = NoBalance
    /\ array = NoArray

NextPayout ==
    \/ PayoutInit
    \/ PayoutTransferFee
    \/ PayoutProof
    \/ PayoutCompute
    \/ PayoutFinalize

SpecPayout == InitPayout /\ [][NextPayout]_vars

\* the lamports the pool has paid less those it has received
PoolNetPayout == 0 - balance[Pool][0]

\* C40: for a native-asset verification closed with verdict true, the lamports the
\* pool paid at the terminal transfer (amount + commitment_hash_fee_token
\* + proof_verification_fee + network_fee) less those paid into the pool at fee
\* transfer (commitment hash fee + subvention) do not exceed join_split.amount
\* + join_split.fee, and none of the additions and subtractions of the fees
\* exceeds the 64 bits or falls below 0.
C40_PoolPayout ==
    LET va == acct[FundsAccount]
        data == va.data
        sum == data.commitment_hash_fee_token + data.proof_verification_fee
               + data.network_fee
    IN  /\ va.state = "FeeTransferred" /\ va.request.token_id = 0
            => balance[Pool][0] = data.commitment_hash_fee + data.subvention
        /\ va.state = "Closed" /\ va.is_verified = Some(TRUE) /\ va.request.token_id = 0
            => /\ PoolNetPayout = va.request.amount + sum
                                  - (data.commitment_hash_fee + data.subvention)
               /\ PoolNetPayout <= va.request.amount + va.request.fee
               /\ data.commitment_hash_fee_token + data.proof_verification_fee <= TokenMax
               /\ sum <= TokenMax
               /\ data.subvention <= sum

\* closed with verdict true after a subvention, the pool has paid out all of the
\* amount and the fee
C40_Witness ==
    /\ acct[FundsAccount].state = "Closed"
    /\ acct[FundsAccount].is_verified = Some(TRUE)
    /\ acct[FundsAccount].request.fee = 3
    /\ acct[FundsAccount].data.subvention = 1
    /\ acct[FundsAccount].data.proof_verification_fee = 2
    /\ PoolNetPayout = acct[FundsAccount].request.amount + acct[FundsAccount].request.fee

----------------------------------------------------------------------------
(* SpecSpend: the verification accounts side by side, a step being a whole   *)
(* transaction that succeeded: every statement, with and without             *)
(* skip_nullifier_pda, the computation open to every caller, the finalize    *)
(* instructions of an account in one transaction.                            *)

SpendInit ==
    \E a \in VAccs, args \in InitArgs :
        \E r \in {init_verification(Program, a, args)} : Commit(r)

SpendTransferFee ==
    \E a \in VAccs, args \in TransferFeeArgs :
        \E r \in {init_verification_transfer_fee(Program, a, args)} : Commit(r)

SpendProof ==
    \E a \in VAccs, args \in ProofArgs :
        \E r \in {init_verification_proof(Program, a, args)} : Commit(r)

SpendCompute ==
    \E a \in VAccs, args \in ComputeArgs :
        \E r \in {compute_verification(Program, a, args)} : Commit(r)

SpendFinalize ==
    \E a \in VAccs :
        \E r \in {client_finalize(Program, a)} : Commit(r)

InitSpend ==
    /\ queue = EmptyQueueOf(0, ZeroRequest)
    /\ fifo = <<>>
    /\ nullifiers = [t \in Trees |-> {}]
    /\ inserted = {}
    /\ acct = [a \in VAccs |-> AbsentAccount]
    /\ nda = {}
    /\ tx = Idle
    /\ snap = NoSnap
    /\ last = NoCall
    /\ balance = NoBalance
    /\ array = NoArray

NextSpend ==
    \/ SpendInit
    \/ SpendTransferFee
    \/ SpendProof
    \/ SpendCompute
    \/ SpendFinalize

SpecSpend == InitSpend /\ [][NextSpend]_vars

====
